---- MODULE Spec2Model ----
(***************************************************************************)
(* A model of the ifc-rules engine: the pattern and operator matcher       *)
(* (src/src/index.ts), the element indexer (src/unnamed/part_000), the     *)
(* rule evaluator (src/unnamed/part_001) and the fluent rule builder       *)
(* (src/PLANNING.md).                                                      *)
(*                                                                         *)
(* JavaScript values are tagged records: Str(s), Num(n), Bool(b), null     *)
(* and undefined.  Strings are TLA+ strings, handled character by          *)
(* character.  Numbers are fixed-point integers counting 1e-5 units, so    *)
(* that the 0.0001 tolerance of the numeric operators is 10 units.         *)
(* A call that can raise returns a completion record: Ret(v) or Throw.     *)
(***************************************************************************)
EXTENDS Integers, Sequences, FiniteSets, TLC

(***************************************************************************)
(* Bounds of the model.                                                    *)
(***************************************************************************)
MaxEntities == 2
MaxTreeNodes == 3
MaxBuilders == 1
MaxConditions == 3
MaxBuilt == 2
MaxNumber == 12

(***************************************************************************)
(* JavaScript values and completions.                                      *)
(***************************************************************************)
undefined == [t |-> "undefined"]
null == [t |-> "null"]
Str(s) == [t |-> "string", v |-> s]
Num(n) == [t |-> "number", v |-> n]
Bool(b) == [t |-> "boolean", v |-> b]

IsNullish(x) == x.t \in {"undefined", "null"}
\* JavaScript truthiness of a string-or-undefined value: '' is falsy.
Truthy(x) == ~IsNullish(x) /\ ~(x.t = "string" /\ x.v = "") /\ ~(x.t = "boolean" /\ ~x.v)
                           /\ ~(x.t = "number" /\ x.v = 0)

Ret(v) == [threw |-> FALSE, value |-> v]
Throw == [threw |-> TRUE, value |-> FALSE]

\* Array.prototype.every over the completions rs[1..n], evaluated left to
\* right: stops at the first false, and an exception raised before that
\* propagates.
every(rs) ==
    LET stop == {i \in 1..Len(rs) : rs[i].threw \/ ~rs[i].value}
    IN  IF stop = {} THEN Ret(TRUE)
        ELSE LET first == CHOOSE i \in stop : \A j \in stop : i <= j
             IN  IF rs[first].threw THEN Throw ELSE Ret(FALSE)

\* Array.prototype.some: stops at the first true.
some(rs) ==
    LET stop == {i \in 1..Len(rs) : rs[i].threw \/ rs[i].value}
    IN  IF stop = {} THEN Ret(FALSE)
        ELSE LET first == CHOOSE i \in stop : \A j \in stop : i <= j
             IN  IF rs[first].threw THEN Throw ELSE Ret(TRUE)

\* !x of a completion.
negate(r) == IF r.threw THEN Throw ELSE Ret(~r.value)

(***************************************************************************)
(* Strings.                                                                *)
(***************************************************************************)
UpperChars == "ABCDEFGHIJKLMNOPQRSTUVWXYZ"
LowerChars == "abcdefghijklmnopqrstuvwxyz"
CharAt(s, i) == SubSeq(s, i, i)

\* The lower-case letter of each upper-case letter.
LowerOf ==
    [c \in {CharAt(UpperChars, i) : i \in 1..Len(UpperChars)} |->
        CharAt(LowerChars, CHOOSE i \in 1..Len(UpperChars) : CharAt(UpperChars, i) = c)]

toLowerChar(c) == IF c \in DOMAIN LowerOf THEN LowerOf[c] ELSE c

RECURSIVE toLowerCase(_)
toLowerCase(s) ==
    IF s = "" THEN "" ELSE toLowerChar(Head(s)) \o toLowerCase(Tail(s))

\* String.prototype.includes / startsWith / endsWith
includes(s, sub) ==
    \E i \in 1..(Len(s) - Len(sub) + 1) : SubSeq(s, i, i + Len(sub) - 1) = sub
startsWith(s, sub) == Len(sub) <= Len(s) /\ SubSeq(s, 1, Len(sub)) = sub
endsWith(s, sub) ==
    Len(sub) <= Len(s) /\ SubSeq(s, Len(s) - Len(sub) + 1, Len(s)) = sub

(***************************************************************************)
(* Regular expressions.  A compiled expression is a sequence of tokens:    *)
(* "lit" (one literal character), "any" (a dot) and "run" (a dot and a     *)
(* star), with the anchors kept apart.  All expressions of the program     *)
(* carry the 'i' flag.                                                     *)
(***************************************************************************)
Lit(c) == [k |-> "lit", c |-> c]
AnyChar == [k |-> "any"]
AnyRun == [k |-> "run"]

\* Whether tokens toks[i..] match s[j..] up to the end of s (atEnd) or up to
\* any position.
RECURSIVE MatchFrom(_, _, _, _, _)
MatchFrom(toks, i, s, j, atEnd) ==
    IF i > Len(toks) THEN (~atEnd \/ j > Len(s))
    ELSE IF toks[i].k = "run"
         THEN \E n \in j..(Len(s) + 1) : MatchFrom(toks, i + 1, s, n, atEnd)
    ELSE IF j > Len(s) THEN FALSE
    ELSE IF toks[i].k = "any" THEN MatchFrom(toks, i + 1, s, j + 1, atEnd)
    ELSE toLowerChar(toks[i].c) = toLowerChar(CharAt(s, j))
         /\ MatchFrom(toks, i + 1, s, j + 1, atEnd)

\* RegExp.prototype.test
RegExpTest(re, s) ==
    IF re.atStart THEN MatchFrom(re.toks, 1, s, 1, re.atEnd)
    ELSE \E j \in 1..(Len(s) + 1) : MatchFrom(re.toks, 1, s, j, re.atEnd)

\* The tokens of a glob: * is any run, ? any one character, every other
\* character (the escaped ones included) stands for itself.
RECURSIVE globTokens(_)
globTokens(pattern) ==
    IF pattern = "" THEN <<>>
    ELSE LET c == Head(pattern)
         IN  <<(IF c = "*" THEN AnyRun ELSE IF c = "?" THEN AnyChar ELSE Lit(c))>>
             \o globTokens(Tail(pattern))

globToRegex(pattern) ==
    [toks |-> globTokens(pattern), atStart |-> TRUE, atEnd |-> TRUE]

\* new RegExp(source, 'i') for the expressions of the model: literal
\* characters, ".", ".*", a leading "^" and a trailing "$".  A "[" or "("
\* that is never closed, and a leading "*", are syntax errors.
RegExpSyntaxError(source) ==
    \/ (includes(source, "[") /\ ~includes(source, "]"))
    \/ (includes(source, "(") /\ ~includes(source, ")"))
    \/ startsWith(source, "*")

RECURSIVE regTokens(_)
regTokens(body) ==
    IF body = "" THEN <<>>
    ELSE IF startsWith(body, ".*") THEN <<AnyRun>> \o regTokens(SubSeq(body, 3, Len(body)))
    ELSE IF Head(body) = "." THEN <<AnyChar>> \o regTokens(Tail(body))
    ELSE <<Lit(Head(body))>> \o regTokens(Tail(body))

NewRegExp(source) ==
    IF RegExpSyntaxError(source) THEN Throw
    ELSE LET s1 == IF startsWith(source, "^") THEN Tail(source) ELSE source
             s2 == IF endsWith(s1, "$") THEN SubSeq(s1, 1, Len(s1) - 1) ELSE s1
         IN  Ret([toks |-> regTokens(s2),
                  atStart |-> startsWith(source, "^"),
                  atEnd |-> endsWith(s1, "$")])

(***************************************************************************)
(* src/src/index.ts: the pattern and operator matcher.                     *)
(***************************************************************************)
HasWildcard(pattern) == includes(pattern, "*") \/ includes(pattern, "?")

\* matchesPattern(value, pattern): value is Str(..), null or undefined.
matchesPattern(value, pattern) ==
    IF IsNullish(value) THEN FALSE
    ELSE IF HasWildcard(pattern) THEN RegExpTest(globToRegex(pattern), value.v)
    ELSE toLowerCase(value.v) = toLowerCase(pattern)

\* The 'matches' case without its catch: the SyntaxError propagates.
matchesCaseUncaught(value, compareValue) ==
    LET regex == NewRegExp(compareValue)
    IN  IF regex.threw THEN Throw ELSE Ret(RegExpTest(regex.value, value))

\* The 'matches' case: a RegExp that does not compile is caught.
matchesCase(value, compareValue) ==
    LET regex == NewRegExp(compareValue)
    IN  IF regex.threw THEN Ret(FALSE) ELSE Ret(RegExpTest(regex.value, value))

\* A missing-subject answer that also admits the negated 'contains'.
missingSubjectNegated(operator) == operator \in {"notEquals", "notContains"}

\* The answer of the string and the numeric operators on a missing subject.
missingSubject(operator) == operator = "notEquals"

\* evaluateStringOperator(value, operator, compareValue): value and
\* compareValue are Str(..), null or undefined.  compareValue.toLowerCase()
\* raises a TypeError when compareValue is not a string.
evaluateStringOperator(value, operator, compareValue) ==
    IF IsNullish(value) THEN Ret(missingSubject(operator))
    ELSE IF compareValue.t # "string" THEN Throw
    ELSE LET v == value.v
             c == compareValue.v
             lowerValue == toLowerCase(v)
             lowerCompare == toLowerCase(c)
         IN  CASE operator = "equals" -> Ret(matchesPattern(value, c))
               [] operator = "notEquals" -> Ret(~matchesPattern(value, c))
               [] operator = "contains" ->
                    IF HasWildcard(c) THEN Ret(matchesPattern(value, "*" \o c \o "*"))
                    ELSE Ret(includes(lowerValue, lowerCompare))
               [] operator = "notContains" ->
                    IF HasWildcard(c) THEN Ret(~matchesPattern(value, "*" \o c \o "*"))
                    ELSE Ret(~includes(lowerValue, lowerCompare))
               [] operator = "startsWith" ->
                    IF HasWildcard(c) THEN Ret(matchesPattern(value, c \o "*"))
                    ELSE Ret(startsWith(lowerValue, lowerCompare))
               [] operator = "endsWith" ->
                    IF HasWildcard(c) THEN Ret(matchesPattern(value, "*" \o c))
                    ELSE Ret(endsWith(lowerValue, lowerCompare))
               [] operator = "matches" -> matchesCase(v, c)
               [] OTHER -> Ret(FALSE)

\* The float tolerance of equals / notEquals: 0.0001, in 1e-5 units.
Tolerance == 10
Abs(n) == IF n < 0 THEN -n ELSE n
IsNaN(x) == x.t = "NaN"

\* evaluateNumericOperator(value, operator, compareValue, compareTo):
\* value is Num(..), NaN, null or undefined; compareValue an integer;
\* compareTo Num(..) or undefined.
evaluateNumericOperator(value, operator, compareValue, compareTo) ==
    IF IsNullish(value) \/ IsNaN(value) THEN missingSubject(operator)
    ELSE CASE operator = "equals" -> Abs(value.v - compareValue) < Tolerance
           [] operator = "notEquals" -> Abs(value.v - compareValue) >= Tolerance
           [] operator = "greaterThan" -> value.v > compareValue
           [] operator = "lessThan" -> value.v < compareValue
           [] operator = "greaterOrEqual" -> value.v >= compareValue
           [] operator = "lessOrEqual" -> value.v <= compareValue
           [] operator = "between" ->
                IF compareTo.t = "undefined" THEN FALSE
                ELSE value.v >= compareValue /\ value.v <= compareTo.v
           [] OTHER -> FALSE

\* String(n) of an integer, as in the template `Storey ${id}`.
RECURSIVE NumberString(_)
NumberString(n) ==
    IF n < 0 THEN "-" \o NumberString(-n)
    ELSE IF n < 10 THEN CharAt("0123456789", n + 1)
    ELSE NumberString(n \div 10) \o CharAt("0123456789", (n % 10) + 1)

\* The units of the number one, and the number of an integer.
Unit == Tolerance * 10000
Integer(n) == Num(n * Unit)

\* The decimal digits of a fraction of scale parts, trailing zeros dropped.
RECURSIVE FractionDigits(_, _)
FractionDigits(fraction, scale) ==
    IF fraction = 0 THEN ""
    ELSE CharAt("0123456789", (fraction \div (scale \div 10)) + 1)
         \o FractionDigits(fraction % (scale \div 10), scale \div 10)

\* String(n) of a number of the model.
DecimalString(units) ==
    (IF units < 0 THEN "-" ELSE "")
    \o NumberString(Abs(units) \div Unit)
    \o (IF Abs(units) % Unit = 0 THEN ""
        ELSE "." \o FractionDigits(Abs(units) % Unit, Unit))

\* String(value) for the values of the model.  An array joins the strings
\* of its items with commas, a null or undefined item giving none.
RECURSIVE JsString(_), joinFrom(_, _)
JsString(x) ==
    CASE x.t = "string" -> x.v
      [] x.t = "boolean" -> IF x.v THEN "true" ELSE "false"
      [] x.t = "null" -> "null"
      [] x.t = "undefined" -> "undefined"
      [] x.t = "number" -> DecimalString(x.v)
      [] x.t = "NaN" -> "NaN"
      [] x.t = "array" -> joinFrom(x.v, 1)
      [] OTHER -> "[object Object]"
joinFrom(items, i) ==
    IF i > Len(items) THEN ""
    ELSE (IF i > 1 THEN "," ELSE "")
         \o (IF IsNullish(items[i]) THEN "" ELSE JsString(items[i]))
         \o joinFrom(items, i + 1)

\* evaluateOperator(value, operator, compareValue, compareTo)
evaluateOperator(value, operator, compareValue, compareTo) ==
    IF operator = "exists" THEN Ret(~IsNullish(value))
    ELSE IF operator = "notExists" THEN Ret(IsNullish(value))
    ELSE IF IsNullish(value) THEN Ret(operator \in {"notEquals", "notExists"})
    ELSE IF value.t = "number" /\ compareValue.t = "number"
         THEN Ret(evaluateNumericOperator(value, operator, compareValue.v, compareTo))
    ELSE IF value.t = "boolean"
         THEN LET boolCompare == \/ compareValue = Bool(TRUE)
                                 \/ compareValue = Str("true")
                                 \/ compareValue = Str(".T.")
              IN  CASE operator = "equals" -> Ret(value.v = boolCompare)
                    [] operator = "notEquals" -> Ret(value.v # boolCompare)
                    [] OTHER -> Ret(FALSE)
    ELSE evaluateStringOperator(Str(JsString(value)), operator,
                                Str(IF IsNullish(compareValue) THEN ""
                                    ELSE JsString(compareValue)))

(***************************************************************************)
(* src/unnamed/part_000: the element indexer.                              *)
(*                                                                         *)
(* A Map is a function (its keys the DOMAIN) where only lookups matter and *)
(* a sequence where the iteration order matters.  parseResult.entities is  *)
(* the sequence of its entities in iteration order, with distinct          *)
(* expressIds.  An object used as a dictionary (properties, quantities) is *)
(* the sequence of its entries in insertion order, with distinct names.    *)
(***************************************************************************)
Range(f) == {f[i] : i \in DOMAIN f}
MapGet(m, k) == IF k \in DOMAIN m THEN m[k] ELSE undefined
\* A Map and an array held in an optional field, as values that compare with
\* undefined.
Map(m) == [t |-> "map", m |-> m]
Array(v) == [t |-> "array", v |-> v]

\* IFC_INHERITANCE, the static type-ancestry table.
BuildingElementChain(type) ==
    <<"IfcRoot", "IfcObjectDefinition", "IfcObject", "IfcProduct", "IfcElement",
      "IfcBuildingElement", type>>
SpatialElementChain(type) ==
    <<"IfcRoot", "IfcObjectDefinition", "IfcObject", "IfcProduct", "IfcSpatialElement",
      "IfcSpatialStructureElement", type>>
BuildingElementTypes ==
    {"IfcWall", "IfcDoor", "IfcWindow", "IfcSlab", "IfcColumn", "IfcBeam", "IfcRoof",
     "IfcStair", "IfcRailing", "IfcCurtainWall"}
SpatialElementTypes == {"IfcSpace", "IfcBuildingStorey", "IfcBuilding", "IfcSite"}
IFC_INHERITANCE ==
    [type \in BuildingElementTypes \cup SpatialElementTypes
              \cup {"IfcWallStandardCase", "IfcProject"} |->
        CASE type \in BuildingElementTypes -> BuildingElementChain(type)
          [] type \in SpatialElementTypes -> SpatialElementChain(type)
          [] type = "IfcWallStandardCase" ->
                <<"IfcRoot", "IfcObjectDefinition", "IfcObject", "IfcProduct", "IfcElement",
                  "IfcBuildingElement", "IfcWall", "IfcWallStandardCase">>
          [] OTHER -> <<"IfcRoot", "IfcObjectDefinition", "IfcContext", "IfcProject">>]

\* A lookup whose fallback is the empty chain.
getInheritanceChainNoFallback(type) ==
    IF type \in DOMAIN IFC_INHERITANCE THEN IFC_INHERITANCE[type] ELSE <<>>

getInheritanceChain(type) ==
    IF type \in DOMAIN IFC_INHERITANCE THEN IFC_INHERITANCE[type] ELSE <<type>>

\* Array.prototype.includes on an array of strings: strict equality.
arrayIncludes(arr, v) == \E i \in 1..Len(arr) : arr[i] = v

\* entity.attributes[i], zero-based as in the source.
Attr(entity, i) ==
    IF i + 1 <= Len(entity.attributes) THEN entity.attributes[i + 1] ELSE undefined

\* a || b on JavaScript values
OrElse(a, b) == IF Truthy(a) THEN a ELSE b

\* The product filter of the entity loop: the entity is skipped when it is
\* no product and its type name does not start with 'Ifc'.
isProduct(inheritanceChain) ==
    \/ arrayIncludes(inheritanceChain, "IfcProduct")
    \/ arrayIncludes(inheritanceChain, "IfcSpatialStructureElement")
skipEntity(entity) ==
    ~isProduct(getInheritanceChain(entity.type)) /\ ~startsWith(entity.type, "Ifc")

\* The first index at which a sequence of test outcomes is true, 0 when
\* there is none.
FirstIndex(tests) ==
    IF \E i \in DOMAIN tests : tests[i]
    THEN CHOOSE i \in DOMAIN tests : tests[i] /\ \A j \in 1..(i - 1) : ~tests[j]
    ELSE 0

\* propertyRelations: element id -> the ids of its property sets, in the
\* order of the IFCRELDEFINESBYPROPERTIES relationships.
RECURSIVE propertyRelationsOf(_, _)
propertyRelationsOf(relationships, elementId) ==
    IF relationships = <<>> THEN <<>>
    ELSE LET rel == Head(relationships)
             n == IF rel.type = "IFCRELDEFINESBYPROPERTIES"
                  THEN Cardinality({i \in 1..Len(rel.relatedObjects) :
                                       rel.relatedObjects[i] = elementId})
                  ELSE 0
         IN  [i \in 1..n |-> rel.relatingObject]
             \o propertyRelationsOf(Tail(relationships), elementId)

\* typeRelations: element id -> type id, the last IFCRELDEFINESBYTYPE
\* relationship naming the element winning; undefined when there is none.
typeRelationOf(relationships, elementId) ==
    LET hits == {i \in 1..Len(relationships) :
                    /\ relationships[i].type = "IFCRELDEFINESBYTYPE"
                    /\ arrayIncludes(relationships[i].relatedObjects, elementId)}
    IN  IF hits = {} THEN undefined
        ELSE Num(relationships[CHOOSE i \in hits : \A j \in hits : j <= i].relatingObject)

\* parseResult.entities.get(id)
entityById(parseResult, id) ==
    LET i == FirstIndex([k \in DOMAIN parseResult.entities |->
                           parseResult.entities[k].expressId = id])
    IN  IF i = 0 THEN undefined ELSE parseResult.entities[i]

\* storeyNames.get(storeyId)
storeyNameOf(parseResult, spatialHierarchy, storeyId) ==
    IF storeyId \notin DOMAIN spatialHierarchy.byStorey THEN undefined
    ELSE LET storeyEntity == entityById(parseResult, storeyId)
         IN  IF storeyEntity = undefined THEN undefined
             ELSE OrElse(Attr(storeyEntity, 2), Str("Storey " \o NumberString(storeyId)))

\* A default placement on a storey of its own.
UnassignedSpatial ==
    [project |-> undefined, site |-> undefined, building |-> undefined,
     storey |-> Str("Unassigned"), space |-> undefined, storeyElevation |-> undefined]

NoSpatial ==
    [project |-> undefined, site |-> undefined, building |-> undefined,
     storey |-> undefined, space |-> undefined, storeyElevation |-> undefined]

\* elementToSpatial.get(expressId) || {}
spatialOf(parseResult, options, expressId) ==
    IF options.spatialHierarchy = undefined THEN NoSpatial
    ELSE LET sh == options.spatialHierarchy
         IN  IF expressId \notin DOMAIN sh.elementToStorey THEN NoSpatial
             ELSE LET storeyId == sh.elementToStorey[expressId]
                  IN  [NoSpatial EXCEPT
                         !.storey = storeyNameOf(parseResult, sh, storeyId),
                         !.storeyElevation = MapGet(sh.storeyElevations, storeyId)]

\* obj[name] = props on a dictionary: an existing key keeps its place.
dictSet(dict, name, props) ==
    LET i == FirstIndex([k \in DOMAIN dict |-> dict[k].name = name])
    IN  IF i = 0 THEN Append(dict, [name |-> name, props |-> props])
        ELSE [dict EXCEPT ![i] = [name |-> name, props |-> props]]

\* The properties of an element: one dictionary entry per property set that
\* the relationships assign to it and options.propertySets knows.
RECURSIVE propertiesFrom(_, _, _)
propertiesFrom(propertySets, propertySetIds, properties) ==
    IF propertySetIds = <<>> THEN properties
    ELSE LET pset == MapGet(propertySets, Head(propertySetIds))
         IN  propertiesFrom(propertySets, Tail(propertySetIds),
                            IF pset = undefined THEN properties
                            ELSE dictSet(properties, pset.name, pset.properties))

propertySetIdsOf(options, expressId) ==
    IF options.relationships = undefined THEN <<>>
    ELSE propertyRelationsOf(options.relationships.v, expressId)

propertiesOf(options, expressId) ==
    IF options.propertySets = undefined THEN <<>>
    ELSE propertiesFrom(options.propertySets.m, propertySetIdsOf(options, expressId), <<>>)

\* The names added to propertySetsFound while an element is built.
propertySetNamesOf(options, expressId) ==
    IF options.propertySets = undefined THEN {}
    ELSE LET ids == propertySetIdsOf(options, expressId)
         IN  {options.propertySets.m[ids[i]].name :
                 i \in {j \in 1..Len(ids) : ids[j] \in DOMAIN options.propertySets.m}}

\* The material of an element, undefined when it has none.
materialOf(options, expressId) ==
    IF options.materials = undefined THEN undefined
    ELSE LET m == options.materials
             a == FirstIndex([k \in DOMAIN m.associations |->
                                 m.associations[k].elementId = expressId])
         IN  IF a = 0 THEN undefined
             ELSE LET assoc == m.associations[a]
                  IN  IF assoc.type = "layer_set"
                      THEN LET layerSet == MapGet(m.materialLayerSets, assoc.materialId)
                           IN  IF layerSet = undefined THEN undefined
                               ELSE [name |-> OrElse(layerSet.name, Str("Unnamed Layer Set")).v,
                                     type |-> "layerSet",
                                     totalThickness |-> layerSet.totalThickness,
                                     layers |-> Array(
                                        [i \in 1..Len(layerSet.layers) |->
                                           LET layer == MapGet(m.materialLayers, layerSet.layers[i])
                                           IN  IF layer = undefined
                                               THEN [material |-> "Unknown", thickness |-> Num(0)]
                                               ELSE [material |-> OrElse(layer.material, Str("Unknown")).v,
                                                     thickness |-> OrElse(layer.thickness, Num(0))]])]
                      ELSE LET mat == MapGet(m.materials, assoc.materialId)
                           IN  IF mat = undefined THEN undefined
                               ELSE [name |-> mat.name, type |-> "single",
                                     totalThickness |-> undefined, layers |-> undefined]

\* The classifications of an element, in the order of its references.
RECURSIVE classificationsFrom(_, _)
classificationsFrom(c, classIds) ==
    IF classIds = <<>> THEN <<>>
    ELSE LET ref == MapGet(c.classificationReferences, Head(classIds))
         IN  (IF ref = undefined THEN <<>>
              ELSE LET source == IF Truthy(ref.referencedSource)
                                 THEN MapGet(c.classifications, ref.referencedSource.v)
                                 ELSE undefined
                       systemName == IF source = undefined THEN "Unknown System"
                                     ELSE OrElse(Str(source.name), Str("Unknown System")).v
                   IN  <<[system |-> systemName,
                          code |-> ref.identification,
                          name |-> OrElse(ref.name, Str(ref.identification)).v,
                          path |-> <<>>]>>)
             \o classificationsFrom(c, Tail(classIds))

classificationsOf(options, expressId) ==
    IF options.classifications = undefined THEN <<>>
    ELSE LET c == options.classifications
         IN  IF expressId \in DOMAIN c.elementClassifications
             THEN classificationsFrom(c, c.elementClassifications[expressId])
             ELSE <<>>

\* relationships: only hasType is ever filled in.
\* Relationships that also record a container.
relationshipsOfContained(options, expressId) ==
    [containedIn |-> Num(6), aggregatedBy |-> undefined, connectedTo |-> undefined,
     hasType |-> IF options.relationships = undefined THEN undefined
                 ELSE typeRelationOf(options.relationships.v, expressId)]

relationshipsOf(options, expressId) ==
    [containedIn |-> undefined, aggregatedBy |-> undefined, connectedTo |-> undefined,
     hasType |-> IF options.relationships = undefined THEN undefined
                 ELSE typeRelationOf(options.relationships.v, expressId)]

\* The unified element built from one retained entity.  predefinedType and
\* tag are never set, so they read as undefined.
createElement(parseResult, options, entity) ==
    [expressId |-> entity.expressId,
     globalId |-> OrElse(Attr(entity, 0), Str("")).v,
     type |-> entity.type,
     inheritanceChain |-> getInheritanceChain(entity.type),
     name |-> Attr(entity, 2),
     description |-> Attr(entity, 3),
     objectType |-> Attr(entity, 4),
     predefinedType |-> undefined,
     tag |-> undefined,
     spatial |-> spatialOf(parseResult, options, entity.expressId),
     properties |-> propertiesOf(options, entity.expressId),
     quantities |-> <<>>,
     material |-> materialOf(options, entity.expressId),
     classifications |-> classificationsOf(options, entity.expressId),
     relationships |-> relationshipsOf(options, entity.expressId)]

\* The entities the loop retains, in iteration order.
RECURSIVE retained(_)
retained(entities) ==
    IF entities = <<>> THEN <<>>
    ELSE (IF skipEntity(Head(entities)) THEN <<>> ELSE <<Head(entities)>>)
         \o retained(Tail(entities))

\* A read of the entity collection that takes an absent one for empty.
entitiesOrNone(parseResult) ==
    IF "entities" \notin DOMAIN parseResult THEN Ret(<<>>) ELSE Ret(parseResult.entities)

\* The entity collection the loops read: parseResult.entities.get(..) and
\* the iteration of parseResult.entities raise a TypeError when parseResult
\* or its entities field is absent.
entitiesOf(parseResult) ==
    IF "entities" \notin DOMAIN parseResult THEN Throw ELSE Ret(parseResult.entities)

\* buildElementIndex(parseResult, options): the index, or a rejected
\* promise when the entity collection is absent.
\* A Map entry that holds the last id only: map.set(key, new Set([id])).
setTo(map, key, id) ==
    IF key \in DOMAIN map THEN [map EXCEPT ![key] = {id}] ELSE map @@ (key :> {id})

\* if (!map.has(key)) map.set(key, new Set()); map.get(key).add(id)
addTo(map, key, id) ==
    IF key \in DOMAIN map THEN [map EXCEPT ![key] = @ \cup {id}] ELSE map @@ (key :> {id})

\* The secondary maps and name sets before the entity loop.
NoSecondary ==
    [byType |-> <<>>, byStorey |-> <<>>, byClassification |-> <<>>, byMaterial |-> <<>>,
     propertySets |-> {}, classificationSystems |-> {}]

\* classificationSystems and byClassification after the classifications of
\* one element, from the k-th on, are added.
RECURSIVE withClassifications(_, _, _, _)
withClassifications(secondary, classifications, k, expressId) ==
    IF k > Len(classifications) THEN secondary
    ELSE withClassifications(
            [secondary EXCEPT
                !.classificationSystems = @ \cup {classifications[k].system},
                !.byClassification =
                    addTo(@, classifications[k].system \o ":" \o classifications[k].code,
                          expressId)],
            classifications, k + 1, expressId)

\* The secondary maps and name sets after one pass of the entity loop, for
\* the element the pass creates.
withElement(secondary, options, element) ==
    LET named == [secondary EXCEPT
                     !.propertySets = @ \cup propertySetNamesOf(options, element.expressId)]
        withMaterial ==
            IF element.material = undefined THEN named
            ELSE [named EXCEPT
                     !.byMaterial = addTo(@, toLowerCase(element.material.name),
                                          element.expressId)]
        classified == withClassifications(withMaterial, element.classifications, 1,
                                          element.expressId)
        typed == [classified EXCEPT !.byType = addTo(@, element.type, element.expressId)]
    IN  IF Truthy(element.spatial.storey)
        THEN [typed EXCEPT !.byStorey = addTo(@, element.spatial.storey.v, element.expressId)]
        ELSE typed

\* The secondary maps and name sets after the passes for the first k elements.
RECURSIVE secondaryOf(_, _, _)
secondaryOf(elements, options, k) ==
    IF k = 0 THEN NoSecondary
    ELSE withElement(secondaryOf(elements, options, k - 1), options, elements[k])

buildElementIndex(parseResult, options) ==
    IF entitiesOf(parseResult).threw THEN Throw
    ELSE LET kept == retained(entitiesOf(parseResult).value)
             elements == [i \in 1..Len(kept) |-> createElement(parseResult, options, kept[i])]
             secondary == secondaryOf(elements, options, Len(elements))
         IN  Ret([elements |-> elements,
                  byType |-> secondary.byType,
                  byStorey |-> secondary.byStorey,
                  byClassification |-> secondary.byClassification,
                  byMaterial |-> secondary.byMaterial,
                  propertySets |-> secondary.propertySets,
                  classificationSystems |-> secondary.classificationSystems])

(***************************************************************************)
(* src/unnamed/part_001: the rule evaluator.                               *)
(*                                                                         *)
(* A condition is a record with a "type" field and the fields of its kind. *)
(* An optional field that is left out holds undefined.  entityType is      *)
(* Str(name) or StrArray(<<names>>).                                       *)
(***************************************************************************)
StrArray(names) == Array(names)

\* The predefinedType filter of a type condition, applied to a type name
\* that matched.
predefinedTypeAccepts(element, condition) ==
    Truthy(condition.predefinedType)
        => matchesPattern(element.predefinedType, condition.predefinedType.v)

\* A subtype test that looks at the element's own type only.
typeMatchesOwnTypeOnly(element, type) == element.type = type

\* Whether one requested type name matches the element, subtypes included.
typeMatchesWithSubtypes(element, type) == arrayIncludes(element.inheritanceChain, type)

\* Whether one requested type name matches the element's own type.
typeMatchesExact(element, type) == matchesPattern(Str(element.type), type)

evaluateTypeCondition(element, condition) ==
    LET types == IF condition.entityType.t = "array" THEN condition.entityType.v
                 ELSE <<condition.entityType.v>>
        includeSubtypes == condition.includeSubtypes # Bool(FALSE)
    IN  \E i \in 1..Len(types) :
           /\ IF includeSubtypes THEN typeMatchesWithSubtypes(element, types[i])
              ELSE typeMatchesExact(element, types[i])
           /\ predefinedTypeAccepts(element, condition)

\* pset[propertyName] of one dictionary entry, undefined when absent.
entryGet(props, propertyName) ==
    LET i == FirstIndex([k \in DOMAIN props |-> props[k].name = propertyName])
    IN  IF i = 0 THEN undefined ELSE props[i]

\* A search that keeps the last admitted entry that defines propertyName.
lastDefining(dict, propertyName, admitted) ==
    LET hits == {k \in DOMAIN dict :
                    admitted[k] /\ entryGet(dict[k].props, propertyName) # undefined}
    IN  IF hits = {} THEN undefined
        ELSE entryGet(dict[CHOOSE k \in hits : \A j \in hits : j <= k].props, propertyName)

\* The first entry, in the dictionary's order, whose name is admitted
\* (admitted[k] for the k-th entry) and that defines propertyName; undefined
\* when there is none.
firstDefining(dict, propertyName, admitted) ==
    LET i == FirstIndex([k \in DOMAIN dict |->
                            /\ admitted[k]
                            /\ entryGet(dict[k].props, propertyName) # undefined])
    IN  IF i = 0 THEN undefined ELSE entryGet(dict[i].props, propertyName)

findPropertyValue(properties, propertySet, propertyName) ==
    IF propertySet = "*"
    THEN firstDefining(properties, propertyName, [k \in DOMAIN properties |-> TRUE])
    ELSE IF HasWildcard(propertySet)
    THEN firstDefining(properties, propertyName,
                       [k \in DOMAIN properties |->
                           matchesPattern(Str(properties[k].name), propertySet)])
    ELSE firstDefining(properties, propertyName,
                       [k \in DOMAIN properties |-> properties[k].name = propertySet])

evaluatePropertyCondition(element, condition) ==
    LET propValue == findPropertyValue(element.properties, condition.propertySet,
                                       condition.propertyName)
    IN  IF condition.operator \in {"exists", "notExists"}
        THEN Ret(IF condition.operator = "exists" THEN propValue # undefined
                 ELSE propValue = undefined)
        ELSE IF propValue = undefined
        THEN Ret(condition.operator \in {"notEquals", "notExists"})
        ELSE evaluateOperator(propValue.value, condition.operator, condition.value,
                              condition.valueTo)

evaluateSpatialCondition(element, condition) ==
    LET level == condition.level
        spatialValue ==
            CASE level = "project" -> element.spatial.project
              [] level = "site" -> element.spatial.site
              [] level = "building" -> element.spatial.building
              [] level = "storey" -> element.spatial.storey
              [] level = "space" -> element.spatial.space
              [] OTHER -> undefined
        spatialElevation == IF level = "storey" THEN element.spatial.storeyElevation
                            ELSE undefined
        name == condition.name
        elevation == condition.elevation
    IN  IF name # undefined /\ (~Truthy(spatialValue) \/ ~matchesPattern(spatialValue, name.v))
        THEN FALSE
        ELSE IF elevation # undefined /\ level = "storey"
                /\ (\/ spatialElevation = undefined
                    \/ ~evaluateNumericOperator(spatialElevation, elevation.operator,
                                                elevation.value, elevation.valueTo))
        THEN FALSE
        ELSE IF name = undefined /\ elevation = undefined
        THEN spatialValue # undefined
        ELSE TRUE

\* An evaluation that checks the material's own name only and applies the
\* thickness bounds only to a material that has an aggregate thickness.
evaluateMaterialConditionLenient(element, condition) ==
    LET material == element.material
        thickness == material.totalThickness
    IN  /\ material # undefined
        /\ condition.name # undefined => matchesPattern(Str(material.name), condition.name.v)
        /\ thickness # undefined =>
              /\ condition.minThickness # undefined => thickness.v >= condition.minThickness.v
              /\ condition.maxThickness # undefined => thickness.v <= condition.maxThickness.v

evaluateMaterialCondition(element, condition) ==
    LET material == element.material
        name == condition.name
        minThickness == condition.minThickness
        maxThickness == condition.maxThickness
    IN  IF material = undefined THEN FALSE
        ELSE LET nameMatches ==
                    \/ matchesPattern(Str(material.name), name.v)
                    \/ /\ material.layers # undefined
                       /\ \E i \in 1..Len(material.layers.v) :
                             matchesPattern(Str(material.layers.v[i].material), name.v)
                 thickness == material.totalThickness
             IN  IF name # undefined /\ ~nameMatches THEN FALSE
                 ELSE IF minThickness # undefined \/ maxThickness # undefined
                 THEN /\ thickness # undefined
                      /\ ~(minThickness # undefined /\ thickness.v < minThickness.v)
                      /\ ~(maxThickness # undefined /\ thickness.v > maxThickness.v)
                 ELSE TRUE

\* An evaluation that lets each sub-check be met by an entry of its own.
evaluateClassificationConditionAcross(element, condition) ==
    LET entries == Range(element.classifications)
    IN  /\ entries # {}
        /\ (condition.system # undefined /\ condition.system # Str("*"))
              => \E c \in entries : matchesPattern(Str(c.system), condition.system.v)
        /\ condition.code # undefined
              => \E c \in entries : matchesPattern(Str(c.code), condition.code.v)
        /\ condition.name # undefined
              => \E c \in entries : matchesPattern(Str(c.name), condition.name.v)

evaluateClassificationCondition(element, condition) ==
    LET system == condition.system
        code == condition.code
        name == condition.name
    IN  \E i \in 1..Len(element.classifications) :
           LET classification == element.classifications[i]
           IN  /\ (system # undefined /\ system # Str("*"))
                      => matchesPattern(Str(classification.system), system.v)
               /\ code # undefined => matchesPattern(Str(classification.code), code.v)
               /\ name # undefined => matchesPattern(Str(classification.name), name.v)

evaluateAttributeCondition(element, condition) ==
    LET attribute == condition.attribute
        attrValue ==
            CASE attribute = "name" -> element.name
              [] attribute = "description" -> element.description
              [] attribute = "tag" -> element.tag
              [] attribute = "objectType" -> element.objectType
              [] attribute = "predefinedType" -> element.predefinedType
              [] OTHER -> undefined
    IN  evaluateStringOperator(attrValue, condition.operator, condition.value)

\* qtyValue, the quantity evaluateQuantityCondition finds: under a
\* quantitySet that is given and not '*', the first set whose name
\* matchesPattern admits and that defines quantityName; otherwise the
\* first set that defines it.
qtyValue(quantities, quantitySet, quantityName) ==
    IF Truthy(quantitySet) /\ quantitySet # Str("*")
    THEN firstDefining(quantities, quantityName,
                       [k \in DOMAIN quantities |->
                           matchesPattern(Str(quantities[k].name), quantitySet.v)])
    ELSE firstDefining(quantities, quantityName, [k \in DOMAIN quantities |-> TRUE])

evaluateQuantityCondition(element, condition) ==
    LET found == qtyValue(element.quantities, condition.quantitySet,
                          condition.quantityName)
    IN  IF found = undefined THEN FALSE
        ELSE evaluateNumericOperator(found.value, condition.operator, condition.value,
                                     condition.valueTo)

evaluateRelationshipCondition(element, condition) ==
    LET relation == condition.relation
    IN  CASE relation = "containedIn" -> element.relationships.containedIn # undefined
          [] relation = "aggregatedBy" -> element.relationships.aggregatedBy # undefined
          [] relation = "connectedTo" ->
                /\ element.relationships.connectedTo # undefined
                /\ Len(element.relationships.connectedTo.v) > 0
          [] relation = "hasType" -> element.relationships.hasType # undefined
          [] OTHER -> FALSE

\* A combination whose 'not' negates the conjunction of the children.
combineCompositeNotEvery(type, rs) ==
    CASE type = "or" -> some(rs)
      [] type = "and" -> every(rs)
      [] type = "not" -> negate(every(rs))
      [] OTHER -> Ret(FALSE)

\* The combination of the children's outcomes under a composite kind.
combineComposite(type, rs) ==
    CASE type = "or" -> some(rs)
      [] type = "and" -> every(rs)
      [] type = "not" -> negate(some(rs))
      [] OTHER -> Ret(FALSE)

\* A default branch that lets the unknown kind match.
unknownConditionTypeMatches(element, condition) == Ret(TRUE)

\* The default branch of evaluateCondition: the kind is logged and does not
\* match.
unknownConditionType(element, condition) == Ret(FALSE)

RECURSIVE evaluateCondition(_, _)
evaluateCompositeCondition(element, condition) ==
    combineComposite(condition.type,
                     [i \in 1..Len(condition.conditions) |->
                         evaluateCondition(element, condition.conditions[i])])

evaluateCondition(element, condition) ==
    CASE condition.type = "entityType" -> Ret(evaluateTypeCondition(element, condition))
      [] condition.type = "property" -> evaluatePropertyCondition(element, condition)
      [] condition.type = "spatial" -> Ret(evaluateSpatialCondition(element, condition))
      [] condition.type = "material" -> Ret(evaluateMaterialCondition(element, condition))
      [] condition.type = "classification" ->
            Ret(evaluateClassificationCondition(element, condition))
      [] condition.type = "attribute" -> evaluateAttributeCondition(element, condition)
      [] condition.type = "quantity" -> Ret(evaluateQuantityCondition(element, condition))
      [] condition.type = "relationship" ->
            Ret(evaluateRelationshipCondition(element, condition))
      [] condition.type \in {"or", "and", "not"} ->
            evaluateCompositeCondition(element, condition)
      [] OTHER -> unknownConditionType(element, condition)

\* rule.mode || 'any'
modeOfDefaultAny(rule) == IF Truthy(rule.mode) THEN rule.mode.v ELSE "any"

\* rule.mode || 'all'
modeOf(rule) == IF Truthy(rule.mode) THEN rule.mode.v ELSE "all"

\* A match that requires at least one condition under every mode.
matchesRuleNonEmpty(element, conditions, mode) ==
    LET rs == [i \in 1..Len(conditions) |-> evaluateCondition(element, conditions[i])]
    IN  IF Len(conditions) = 0 THEN Ret(FALSE)
        ELSE IF mode = "all" THEN every(rs) ELSE some(rs)

\* Whether one element matches the rule's top-level conditions under a mode.
matchesRule(element, conditions, mode) ==
    LET rs == [i \in 1..Len(conditions) |-> evaluateCondition(element, conditions[i])]
    IN  IF mode = "all" THEN every(rs) ELSE some(rs)

\* The loop of select over elements[i..], pushing onto matchedIds.
RECURSIVE selectLoop(_, _, _, _)
selectLoop(elements, i, rule, matchedIds) ==
    IF i > Len(elements) THEN Ret(matchedIds)
    ELSE LET matches == matchesRule(elements[i], rule.conditions, modeOf(rule))
         IN  IF matches.threw THEN Throw
             ELSE selectLoop(elements, i + 1, rule,
                             IF matches.value THEN Append(matchedIds, elements[i].expressId)
                             ELSE matchedIds)

\* createSelectionResult, without the evaluation time (a clock reading).
createSelectionResult(expressIds, rule) ==
    [expressIds |-> expressIds, count |-> Len(expressIds), rule |-> rule]

\* A composite traversal that forgets the 'not' composites.
validatedChildrenNoNot(condition) ==
    IF condition.type \in {"or", "and"} THEN condition.conditions ELSE <<>>

\* The children validateCondition descends into.
validatedChildren(condition) ==
    IF condition.type \in {"or", "and", "not"} THEN condition.conditions ELSE <<>>

\* validateCondition(condition, path): the warnings it pushes, in order.
\* The suggestion text of a warning, a listing of the index's names, is
\* left out.
RECURSIVE validateCondition(_, _, _), validateConditions(_, _, _, _)
validateCondition(idx, condition, path) ==
    CASE condition.type = "property" ->
            IF /\ condition.propertySet # "*"
               /\ ~includes(condition.propertySet, "*")
               /\ condition.propertySet \notin idx.propertySets
            THEN <<[path |-> path \o ".propertySet",
                    message |-> "Property set \"" \o condition.propertySet
                                    \o "\" not found in model"]>>
            ELSE <<>>
      [] condition.type = "classification" ->
            IF /\ Truthy(condition.system)
               /\ condition.system.v # "*"
               /\ ~includes(condition.system.v, "*")
               /\ condition.system.v \notin idx.classificationSystems
            THEN <<[path |-> path \o ".system",
                    message |-> "Classification system \"" \o condition.system.v
                                    \o "\" not found in model"]>>
            ELSE <<>>
      [] OTHER -> validateConditions(idx, validatedChildren(condition), 1,
                                     path \o ".conditions")

\* conditions.forEach((c, i) => validateCondition(c, `${prefix}[${i}]`)),
\* from the k-th condition on.
validateConditions(idx, conditions, k, prefix) ==
    IF k > Len(conditions) THEN <<>>
    ELSE validateCondition(idx, conditions[k],
                           prefix \o "[" \o NumberString(k - 1) \o "]")
         \o validateConditions(idx, conditions, k + 1, prefix)

\* validateRule(rule, index).  A rule without a conditions array gets its
\* error pushed and then raises at rule.conditions.forEach.
validateRule(r, idx) ==
    IF "conditions" \notin DOMAIN r THEN Throw
    ELSE LET errors == IF Len(r.conditions) = 0
                       THEN <<[path |-> "conditions",
                               message |-> "Rule must have at least one condition"]>>
                       ELSE <<>>
             warnings == validateConditions(idx, r.conditions, 1, "conditions")
         IN  Ret([valid |-> Len(errors) = 0, errors |-> errors, warnings |-> warnings])

(***************************************************************************)
(* The inputs the specifications draw from.                                *)
(***************************************************************************)
\* A parsed entity with GlobalId and Name attributes (OwnerHistory left out).
Entity(expressId, type, name) ==
    [expressId |-> expressId, type |-> type,
     attributes |-> <<Str("guid-" \o NumberString(expressId)), undefined, name>>]

\* The entities a parse result is made of, each with an expressId of its own.
EntityPool ==
    {Entity(1, "IfcWall", Str("Wall-01")),
     [expressId |-> 2, type |-> "IfcWallStandardCase", attributes |-> <<>>],
     Entity(3, "IfcDoor", Str("Door-01")),
     Entity(4, "IfcPropertySet", Str("Pset_WallCommon")),
     Entity(5, "IfcRelDefinesByProperties", undefined),
     Entity(6, "IfcBuildingStorey", Str("Level 1")),
     Entity(7, "IFCRELDEFINESBYTYPE", undefined)}

\* The sequences of length n of distinct members of S.
RECURSIVE DistinctSeqs(_, _)
DistinctSeqs(S, n) ==
    IF n = 0 THEN {<<>>}
    ELSE {Append(q, e) : q \in DistinctSeqs(S, n - 1), e \in S}
         \ {sq \in {Append(q, e) : q \in DistinctSeqs(S, n - 1), e \in S} :
               \E i \in 1..(n - 1) : sq[i] = sq[n]}

ParseResults ==
    {[entities |-> es] : es \in UNION {DistinctSeqs(EntityPool, n) : n \in 0..MaxEntities}}

NoOptions ==
    [propertySets |-> undefined, materials |-> undefined, classifications |-> undefined,
     spatialHierarchy |-> undefined, relationships |-> undefined]

FullOptions ==
    [propertySets |->
        Map(4 :> [name |-> "Pset_WallCommon",
                  properties |-> <<[name |-> "IsExternal", type |-> "boolean",
                                    value |-> Bool(TRUE)]>>]),
     materials |->
        [materials |-> (20 :> [name |-> "Oak"]),
         materialLayers |-> (21 :> [material |-> Str("Concrete"), thickness |-> Num(20000)]),
         materialLayerSets |->
            (22 :> [name |-> undefined, layers |-> <<21>>, totalThickness |-> Num(20000)]),
         associations |-> <<[elementId |-> 1, materialId |-> 22, type |-> "layer_set"],
                            [elementId |-> 3, materialId |-> 20, type |-> "single"]>>],
     classifications |->
        [classifications |-> (30 :> [name |-> "Uniclass"]),
         classificationReferences |->
            (31 :> [identification |-> "EF_25", name |-> undefined,
                    referencedSource |-> Num(30)]),
         elementClassifications |-> (1 :> <<31>>)],
     spatialHierarchy |->
        [byStorey |-> (6 :> {1, 3}),
         storeyElevations |-> (6 :> Num(0)),
         elementToStorey |-> (1 :> 6 @@ 3 :> 6)],
     relationships |->
        Array(<<[type |-> "IFCRELDEFINESBYPROPERTIES", relatingObject |-> 4,
                 relatedObjects |-> <<1, 4>>],
                [type |-> "IFCRELDEFINESBYTYPE", relatingObject |-> 9,
                 relatedObjects |-> <<3>>]>>)]

OptionSets == {NoOptions, FullOptions}

\* Every choice of the optional inputs to give and to omit.
OptionNames ==
    {"propertySets", "materials", "classifications", "spatialHierarchy", "relationships"}
AllOptionSets ==
    {[name \in OptionNames |-> IF name \in given THEN FullOptions[name] ELSE undefined] :
        given \in SUBSET OptionNames}

\* A parse result without its entity collection.
NoEntities == [t |-> "object"]

\* The conditions of the model, by kind.
TypeCondition(entityType, includeSubtypes, predefinedType) ==
    [type |-> "entityType", entityType |-> entityType,
     includeSubtypes |-> includeSubtypes, predefinedType |-> predefinedType]
AttributeCondition(attribute, operator, value) ==
    [type |-> "attribute", attribute |-> attribute, operator |-> operator, value |-> value]
RelationshipCondition(relation) ==
    [type |-> "relationship", relation |-> relation, target |-> undefined]
CompositeCondition(type, conditions) == [type |-> type, conditions |-> conditions]
\* A condition of a kind the evaluator does not know.
UnknownCondition == [type |-> "bogus"]
\* A 'matches' condition whose regular expression does not compile.
BadRegexCondition == AttributeCondition("name", "matches", Str("["))

Rule(conditions, mode) ==
    [id |-> "rule", name |-> "Rule", conditions |-> conditions, mode |-> mode]
Modes == {undefined, Str("all"), Str("any")}

\* Entity-type conditions: names in the table's and in other letter case,
\* with and without subtypes, single and listed.
TypeConditions ==
    {TypeCondition(Str(name), includeSubtypes, undefined) :
        name \in {"IfcWall", "IFCWALL", "IfcBuildingElement"},
        includeSubtypes \in {undefined, Bool(TRUE), Bool(FALSE)}}
    \cup {TypeCondition(StrArray(<<"IfcDoor", "IfcWall">>), includeSubtypes, undefined) :
             includeSubtypes \in {undefined, Bool(FALSE)}}
    \cup {TypeCondition(Str("IfcWall"), undefined, Str("SOLIDWALL"))}

\* The rules of the engine specification: no condition or one.
EngineRules ==
    {Rule(conditions, mode) :
        conditions \in {<<>>} \cup {<<c>> : c \in TypeConditions
                                              \cup {UnknownCondition, BadRegexCondition}},
        mode \in Modes}

\* The leaves of the condition trees: two that split the sample model four
\* ways, and the three soft failures.
TypeIsWall == TypeCondition(Str("IfcWall"), undefined, undefined)
NameHasZero == AttributeCondition("name", "contains", Str("0"))
SoftFailures == {UnknownCondition, BadRegexCondition, RelationshipCondition("containedIn")}
Leaves == {TypeIsWall, NameHasZero} \cup SoftFailures
CompositeTypes == {"and", "or", "not"}

\* The condition trees of exactly n nodes, and the sequences of trees of n
\* nodes in all.
RECURSIVE Trees(_), Forests(_)
Trees(n) ==
    (IF n = 1 THEN Leaves ELSE {})
    \cup {CompositeCondition(type, f) : type \in CompositeTypes, f \in Forests(n - 1)}
Forests(n) ==
    IF n = 0 THEN {<<>>}
    ELSE UNION {{<<tree>> \o f : tree \in Trees(j), f \in Forests(n - j)} : j \in 1..n}

TreeRules ==
    {Rule(conditions, mode) :
        conditions \in UNION {Forests(n) : n \in 0..MaxTreeNodes}, mode \in Modes}

\* A door, a wall, a wall subtype without a name and a storey.
SampleModel ==
    [entities |-> <<Entity(3, "IfcDoor", Str("Door-01")),
                    Entity(1, "IfcWall", Str("Wall-01")),
                    [expressId |-> 2, type |-> "IfcWallStandardCase", attributes |-> <<>>],
                    Entity(6, "IfcBuildingStorey", Str("Level 1"))>>]

\* Two walls and the storey they are on.
TwoWalls ==
    [entities |-> <<Entity(1, "IfcWall", Str("Wall-01")), Entity(3, "IfcWall", Str("Wall-03")),
                    Entity(6, "IfcBuildingStorey", Str("Level 1"))>>]

(***************************************************************************)
(* The engine as a state machine: an index is built from a parse result,   *)
(* then the caller selects with its rule, or queries with the rule's       *)
(* conditions, any number of times.                                        *)
(***************************************************************************)
VARIABLES
    parseResult,    \* the parser's output, undefined when absent
    options,        \* the optional extraction results
    rule,           \* the caller's rule
    index,          \* the element index, undefined before it is built
    buildFailed,    \* whether buildElementIndex rejected
    result,         \* the completion of the last select or query
    previous,       \* the completion of the call before it
    arrays,         \* the Condition[] arrays of the fluent builders, by reference
    builder,        \* the RuleBuilderImpl in use, undefined before one is made
    returned,       \* the rules build() returned, each with what it held then
    call,           \* the last call of an operator or of a result's method
    outcome,        \* what that call returned
    storeConditions,    \* the rule store's conditions
    storeMatchedIds,    \* the rule store's matchedIds
    isEvaluating,       \* the rule store's isEvaluating
    viewer,             \* the IFC store's viewer: null, or the viewer with its highlights
    engineRef,          \* engineRef.current: null, or the index its engine is made on
    timeoutRef,         \* timeoutRef.current: null, or the last timer set
    engineEffectDue,    \* the effect on [index] has to run
    matchingEffectDue   \* the effect on [conditions, viewer, ...] has to run

engineVars == <<parseResult, options, rule, index, buildFailed, result, previous>>
builderVars == <<arrays, builder, returned>>
callVars == <<call, outcome>>
hookVars ==
    <<storeConditions, storeMatchedIds, isEvaluating, viewer, engineRef, timeoutRef,
      engineEffectDue, matchingEffectDue>>
vars == <<engineVars, builderVars, callVars, hookVars>>

\* A matchedIds array hoisted out of select: it still holds the ids of the
\* call before.
StaleMatchedIds ==
    IF result # undefined /\ ~result.threw THEN result.value.expressIds ELSE <<>>

\* const matchedIds: number[] = []
NewMatchedIds == <<>>

select(idx, r) ==
    LET loop == selectLoop(idx.elements, 1, r, NewMatchedIds)
    IN  IF loop.threw THEN Throw ELSE Ret(createSelectionResult(loop.value, r))

CondArray(conditions) == Array(conditions)
isArray(x) == "t" \in DOMAIN x

query(idx, conditions) ==
    select(idx, [id |-> "inline-query", name |-> "Inline Query",
                 conditions |-> IF isArray(conditions) THEN conditions.v ELSE <<conditions>>,
                 mode |-> undefined])

InitEngine(inputs, optionSets, rules) ==
    /\ parseResult \in inputs
    /\ options \in optionSets
    /\ rule \in rules
    /\ index = undefined
    /\ buildFailed = FALSE
    /\ result = undefined
    /\ previous = undefined
    /\ arrays = <<>>
    /\ builder = undefined
    /\ returned = <<>>
    /\ call = undefined
    /\ outcome = undefined
    /\ storeConditions = <<>>
    /\ storeMatchedIds = <<>>
    /\ isEvaluating = FALSE
    /\ viewer = null
    /\ engineRef = null
    /\ timeoutRef = null
    /\ engineEffectDue = TRUE
    /\ matchingEffectDue = TRUE

Init == InitEngine(ParseResults \cup {undefined}, OptionSets, EngineRules)

BuildIndex ==
    /\ index = undefined
    /\ ~buildFailed
    /\ LET built == buildElementIndex(parseResult, options)
       IN  /\ buildFailed' = built.threw
           /\ index' = IF built.threw THEN undefined ELSE built.value
    /\ UNCHANGED <<parseResult, options, rule, result, previous>>
    /\ UNCHANGED <<builderVars, callVars, hookVars>>

Select ==
    /\ index # undefined
    /\ result' = select(index, rule)
    /\ previous' = result
    /\ UNCHANGED <<parseResult, options, rule, index, buildFailed>>
    /\ UNCHANGED <<builderVars, callVars, hookVars>>

QueryArray ==
    /\ index # undefined
    /\ result' = query(index, CondArray(rule.conditions))
    /\ previous' = result
    /\ UNCHANGED <<parseResult, options, rule, index, buildFailed>>
    /\ UNCHANGED <<builderVars, callVars, hookVars>>

QuerySingle ==
    /\ index # undefined
    /\ Len(rule.conditions) = 1
    /\ result' = query(index, rule.conditions[1])
    /\ previous' = result
    /\ UNCHANGED <<parseResult, options, rule, index, buildFailed>>
    /\ UNCHANGED <<builderVars, callVars, hookVars>>

Next == BuildIndex \/ Select \/ QueryArray \/ QuerySingle

Spec == Init /\ [][Next]_vars

\* The same machine over every choice of optional inputs, an absent entity
\* collection included, with one rule.
InitIndex ==
    InitEngine(ParseResults \cup {undefined, NoEntities, SampleModel, TwoWalls}, AllOptionSets,
               {Rule(<<TypeIsWall>>, undefined)})
SpecIndex == InitIndex /\ [][Next]_vars

\* The same machine over the sample model and the rules of bounded size.
InitRules == InitEngine({SampleModel}, {FullOptions}, TreeRules)
SpecRules == InitRules /\ [][Next]_vars

(***************************************************************************)
(* The fluent builder.  A RuleBuilderImpl holds a reference to its         *)
(* Condition[] array; arrays[ref] is the array's content, the condition    *)
(* objects in it.  A rule that build() returns holds a reference too.      *)
(***************************************************************************)
PropertyCondition(propertySet, propertyName, operator, value) ==
    [type |-> "property", propertySet |-> propertySet, propertyName |-> propertyName,
     operator |-> operator, value |-> value, valueTo |-> undefined]
SpatialCondition(level, name) ==
    [type |-> "spatial", level |-> level, name |-> name, elevation |-> undefined]
MaterialCondition(name) ==
    [type |-> "material", name |-> name, minThickness |-> undefined,
     maxThickness |-> undefined]
ClassificationCondition(system, code) ==
    [type |-> "classification", system |-> system, code |-> code, name |-> undefined]

\* propertyPath.split('.')
RECURSIVE splitFrom(_, _, _)
splitFrom(s, i, start) ==
    IF i > Len(s) THEN <<SubSeq(s, start, Len(s))>>
    ELSE IF CharAt(s, i) = "." THEN <<SubSeq(s, start, i - 1)>> \o splitFrom(s, i + 1, i + 1)
    ELSE splitFrom(s, i + 1, start)
split(s) == splitFrom(s, 1, 1)

\* The condition a PropertyConditionBuilder made for propertyPath adds.
propertyConditionOf(propertyPath, operator, value) ==
    LET parts == split(propertyPath)
    IN  IF Len(parts) = 2 THEN PropertyCondition(parts[1], parts[2], operator, value)
        ELSE PropertyCondition("*", propertyPath, operator, value)

\* A constructor that installs the type condition whatever the names are.
initialConditionsNoWildcard(entityTypes) ==
    IF entityTypes = undefined \/ entityTypes = Str("") THEN <<>>
    ELSE LET types == IF entityTypes.t = "array" THEN entityTypes.v ELSE <<entityTypes.v>>
         IN  IF Len(types) > 0
             THEN <<TypeCondition(StrArray(types), Bool(TRUE), undefined)>>
             ELSE <<>>

\* The conditions the constructor of RuleBuilderImpl installs: entityTypes
\* is Str(name), StrArray(names) or undefined.
initialConditions(entityTypes) ==
    IF entityTypes = undefined \/ entityTypes = Str("") THEN <<>>
    ELSE LET types == IF entityTypes.t = "array" THEN entityTypes.v ELSE <<entityTypes.v>>
         IN  IF Len(types) > 0 /\ types[1] # "*"
             THEN <<TypeCondition(StrArray(types), Bool(TRUE), undefined)>>
             ELSE <<>>

\* A RuleBuilderImpl over the array at ref.  The id is a clock reading.
RuleBuilderImpl(ref) ==
    [ruleId |-> "rule-now", ruleName |-> "Unnamed Rule", ruleDescription |-> undefined,
     conditions |-> ref, mode |-> "all"]

\* The calls the callback of or() makes on its OrBuilder.
OrTypeCall(entityType) == [method |-> "type", entityType |-> entityType]
OrMaterialCall(name) == [method |-> "material", name |-> name]
orConditionOf(orCall) ==
    IF orCall.method = "type" THEN TypeCondition(orCall.entityType, Bool(TRUE), undefined)
    ELSE MaterialCondition(Str(orCall.name))
orBuilderConditions(calls) == [i \in 1..Len(calls) |-> orConditionOf(calls[i])]

\* The arguments of the builder's calls.
EntityTypeArguments ==
    {Str("IfcWall"), Str("*"), Str(""), StrArray(<<"IfcDoor", "IfcWall">>), StrArray(<<>>),
     StrArray(<<"IfcWall", "*">>), StrArray(<<"*", "IfcWall">>)}
PropertyPaths == {"Pset_WallCommon.IsExternal", "IsExternal"}
OrCallbacks ==
    {<<>>, <<OrTypeCall(Str("IfcDoor"))>>,
     <<OrMaterialCall("Oak"), OrTypeCall(Str("IfcWall"))>>}

\* this.conditions.push(condition)
push(condition) ==
    /\ builder # undefined
    /\ Len(arrays[builder.conditions]) < MaxConditions
    /\ arrays' = [arrays EXCEPT ![builder.conditions] = Append(@, condition)]
    /\ UNCHANGED <<builder, returned>>
    /\ UNCHANGED <<engineVars, callVars, hookVars>>

NewBuilder(entityTypes) ==
    /\ Len(arrays) < MaxBuilders
    /\ arrays' = Append(arrays, initialConditions(entityTypes))
    /\ builder' = RuleBuilderImpl(Len(arrays) + 1)
    /\ call' = [name |-> "RuleBuilderImpl", args |-> <<entityTypes>>]
    /\ UNCHANGED <<returned, outcome>>
    /\ UNCHANGED <<engineVars, hookVars>>

BuilderSelect == \E entityTypes \in EntityTypeArguments : NewBuilder(entityTypes)

BuilderAll == NewBuilder(undefined)

Where ==
    \E propertyPath \in PropertyPaths :
        push(propertyConditionOf(propertyPath, "equals", Bool(TRUE)))

WhereName == push(AttributeCondition("name", "contains", Str("Wall")))

OnStorey == push(SpatialCondition("storey", Str("Level 1")))

WithMaterial == push(MaterialCondition(Str("Concrete")))

WithClassification ==
    \E code \in {undefined, Str("EF_25")} : push(ClassificationCondition(Str("Uniclass"), code))

WithPredefinedType ==
    /\ builder # undefined
    /\ LET conditions == arrays[builder.conditions]
           found == FirstIndex([k \in DOMAIN conditions |-> conditions[k].type = "entityType"])
       IN  IF found # 0
           THEN /\ arrays' = [arrays EXCEPT ![builder.conditions][found].predefinedType =
                                                Str("SOLIDWALL")]
                /\ UNCHANGED <<builder, returned>>
                /\ UNCHANGED <<engineVars, callVars, hookVars>>
           ELSE push(AttributeCondition("predefinedType", "equals", Str("SOLIDWALL")))

Or ==
    \E calls \in OrCallbacks :
        IF Len(calls) > 0
        THEN push(CompositeCondition("or", orBuilderConditions(calls)))
        ELSE builder # undefined /\ UNCHANGED vars

MatchAny ==
    /\ builder # undefined
    /\ builder' = [builder EXCEPT !.mode = "any"]
    /\ UNCHANGED <<arrays, returned>>
    /\ UNCHANGED <<engineVars, callVars, hookVars>>

\* The object build() returns: its conditions are the builder's array.
build(b) ==
    [id |-> b.ruleId, name |-> b.ruleName, description |-> b.ruleDescription,
     conditions |-> b.conditions, mode |-> b.mode]

\* The rule a holder of the returned object reads: the array behind its
\* reference, in the shape select takes.
ruleValue(built) ==
    [id |-> built.id, name |-> built.name, conditions |-> arrays[built.conditions],
     mode |-> Str(built.mode)]

Build ==
    /\ builder # undefined
    /\ Len(returned) < MaxBuilt
    /\ returned' = Append(returned, [rule |-> build(builder),
                                     asReturned |-> ruleValue(build(builder))])
    /\ UNCHANGED <<arrays, builder>>
    /\ UNCHANGED <<engineVars, callVars, hookVars>>

NextBuilder ==
    \/ BuilderSelect \/ BuilderAll \/ Where \/ WhereName \/ OnStorey \/ WithMaterial
    \/ WithClassification \/ WithPredefinedType \/ Or \/ MatchAny \/ Build

InitBuilder == InitEngine({SampleModel}, {FullOptions}, {Rule(<<>>, undefined)})
SpecBuilder == InitBuilder /\ [][NextBuilder]_vars

\* The same machine with rules of one condition each: conditions on what
\* the index builder leaves empty, and conditions on what it fills in.
QuantityCondition(quantitySet, quantityName, operator, value) ==
    [type |-> "quantity", quantitySet |-> quantitySet, quantityName |-> quantityName,
     operator |-> operator, value |-> value, valueTo |-> undefined]
UnfilledConditions ==
    {QuantityCondition(quantitySet, "Width", operator, 0) :
        quantitySet \in {undefined, Str("*"), Str("Qto_*")},
        operator \in {"greaterOrEqual", "equals"}}
    \cup {TypeCondition(Str(name), includeSubtypes, Str(predefinedType)) :
             name \in {"IfcWall", "IfcBuildingElement"},
             includeSubtypes \in {undefined, Bool(FALSE)},
             predefinedType \in {"SOLIDWALL", "*"}}
    \cup {SpatialCondition(level, Str(name)) :
             level \in {"project", "site", "building", "space"},
             name \in {"*", "Level 1"}}
    \cup {RelationshipCondition(relation) :
             relation \in {"containedIn", "aggregatedBy", "connectedTo"}}
FilledConditions ==
    {SpatialCondition("storey", Str("*")), SpatialCondition("storey", undefined),
     RelationshipCondition("hasType"), TypeCondition(Str("IfcWall"), undefined, undefined)}
ReachRules ==
    {Rule(<<condition>>, undefined) : condition \in UnfilledConditions \cup FilledConditions}
InitReach == InitEngine(ParseResults \cup {SampleModel}, OptionSets, ReachRules)
SpecReach == InitReach /\ [][Next]_vars

(***************************************************************************)
(* src/unnamed/part_003: the debounced useLiveMatching hook, mounted once, *)
(* with the stores it reads (src/unnamed/part_006, src/unnamed/part_007).  *)
(* A store change that the hook selects makes the effects that depend on   *)
(* it due; React runs the due effects, in the order of the hook, before it *)
(* renders the next change.  The timer callback runs on its own.  The      *)
(* index variable is the IFC store's index, undefined for null.            *)
(***************************************************************************)
\* A condition the panel has not finished: its value is still missing.
UnfinishedCondition == AttributeCondition("name", "contains", undefined)

\* The condition arrays the rule store is given.
LiveConditions == {<<TypeIsWall>>, <<TypeIsWall, NameHasZero>>, <<UnfinishedCondition>>}

\* No effect is due: the last change is rendered and its effects have run.
Rendered == ~engineEffectDue /\ ~matchingEffectDue

\* A viewer without highlights.
NewViewer == [highlighted |-> <<>>]

\* addCondition, updateCondition, removeCondition, setRule: a new conditions
\* array, possibly an empty one.
setConditions ==
    /\ Rendered
    /\ storeConditions' \in LiveConditions \cup {<<>>}
    /\ matchingEffectDue' = TRUE
    /\ UNCHANGED <<storeMatchedIds, isEvaluating, viewer, engineRef, timeoutRef,
                   engineEffectDue>>
    /\ UNCHANGED <<engineVars, builderVars, callVars>>

clearConditions ==
    /\ Rendered
    /\ storeConditions' = <<>>
    /\ storeMatchedIds' = <<>>
    /\ matchingEffectDue' = TRUE
    /\ UNCHANGED <<isEvaluating, viewer, engineRef, timeoutRef, engineEffectDue>>
    /\ UNCHANGED <<engineVars, builderVars, callVars>>

\* setIndex(index) with the index of a loaded model.
setIndex ==
    /\ Rendered
    /\ index' = buildElementIndex(parseResult, options).value
    /\ engineEffectDue' = TRUE
    /\ UNCHANGED <<parseResult, options, rule, buildFailed, result, previous>>
    /\ UNCHANGED <<storeConditions, storeMatchedIds, isEvaluating, viewer, engineRef,
                   timeoutRef, matchingEffectDue>>
    /\ UNCHANGED <<builderVars, callVars>>

setViewer ==
    /\ Rendered
    /\ viewer' = NewViewer
    /\ matchingEffectDue' = TRUE
    /\ UNCHANGED <<storeConditions, storeMatchedIds, isEvaluating, engineRef, timeoutRef,
                   engineEffectDue>>
    /\ UNCHANGED <<engineVars, builderVars, callVars>>

\* reset(): the index and the viewer are null again.
reset ==
    /\ Rendered
    /\ index # undefined \/ viewer # null
    /\ index' = undefined
    /\ viewer' = null
    /\ engineEffectDue' = (index # undefined)
    /\ matchingEffectDue' = (viewer # null)
    /\ UNCHANGED <<parseResult, options, rule, buildFailed, result, previous>>
    /\ UNCHANGED <<storeConditions, storeMatchedIds, isEvaluating, engineRef, timeoutRef>>
    /\ UNCHANGED <<builderVars, callVars>>

\* The effect on [index]: engineRef.current is a new engine, or null.
EngineEffect ==
    /\ engineEffectDue
    /\ engineRef' = IF index # undefined THEN index ELSE null
    /\ engineEffectDue' = FALSE
    /\ UNCHANGED <<storeConditions, storeMatchedIds, isEvaluating, viewer, timeoutRef,
                   matchingEffectDue>>
    /\ UNCHANGED <<engineVars, builderVars, callVars>>

\* clearTimeout(timeoutRef.current): the timer set last will not fire.
cleared(timer) == IF timer = null THEN null ELSE [timer EXCEPT !.pending = FALSE]

\* viewer?.clearHighlights()
clearHighlights(v) == IF v = null THEN null ELSE [v EXCEPT !.highlighted = <<>>]

\* The effect on [conditions, viewer, ...]: the cleanup of its run before
\* and its body.  The callback it sets keeps the conditions and the viewer
\* of this render.
MatchingEffect ==
    /\ matchingEffectDue
    /\ ~engineEffectDue
    /\ matchingEffectDue' = FALSE
    /\ IF Len(storeConditions) = 0
       THEN /\ timeoutRef' = cleared(timeoutRef)
            /\ storeMatchedIds' = <<>>
            /\ viewer' = clearHighlights(viewer)
            /\ UNCHANGED isEvaluating
       ELSE IF engineRef = null
       THEN /\ timeoutRef' = cleared(timeoutRef)
            /\ UNCHANGED <<storeMatchedIds, viewer, isEvaluating>>
       ELSE /\ isEvaluating' = TRUE
            /\ timeoutRef' = [pending |-> TRUE, conditions |-> storeConditions,
                              viewer |-> viewer # null]
            /\ UNCHANGED <<storeMatchedIds, viewer>>
    /\ UNCHANGED <<storeConditions, engineRef, engineEffectDue>>
    /\ UNCHANGED <<engineVars, builderVars, callVars>>

\* The callback of the timer, DEBOUNCE_MS after it was set.  The viewer the
\* callback kept is the store's viewer while the store has one.
Timeout ==
    /\ timeoutRef # null
    /\ timeoutRef.pending
    /\ timeoutRef' = [timeoutRef EXCEPT !.pending = FALSE]
    /\ IF engineRef = null
       THEN UNCHANGED <<storeMatchedIds, isEvaluating, viewer>>
       ELSE \E selected \in {select(engineRef,
                                     [id |-> "live-rule", name |-> "Live Rule",
                                      conditions |-> timeoutRef.conditions,
                                      mode |-> undefined])} :
                IF selected.threw
                THEN /\ isEvaluating' = FALSE
                     /\ UNCHANGED <<storeMatchedIds, viewer>>
                ELSE /\ storeMatchedIds' = selected.value.expressIds
                     /\ isEvaluating' = FALSE
                     /\ viewer' = IF timeoutRef.viewer /\ viewer # null
                                  THEN [viewer EXCEPT
                                           !.highlighted = selected.value.expressIds]
                                  ELSE viewer
    /\ UNCHANGED <<storeConditions, engineRef, engineEffectDue, matchingEffectDue>>
    /\ UNCHANGED <<engineVars, builderVars, callVars>>

NextLive ==
    setConditions \/ clearConditions \/ setIndex \/ setViewer \/ reset
    \/ EngineEffect \/ MatchingEffect \/ Timeout

InitLive == InitEngine({SampleModel}, {FullOptions}, {Rule(<<>>, undefined)})
SpecLive == InitLive /\ [][NextLive]_vars

\* React runs every due effect and the timer fires once its delay is over;
\* the stores are changed by the user, who may stop at any time.
SpecLiveFair ==
    SpecLive /\ WF_vars(EngineEffect) /\ WF_vars(MatchingEffect) /\ WF_vars(Timeout)

(***************************************************************************)
(* Validation of a rule against a built index.                             *)
(***************************************************************************)
\* Leaves that name a property set or a classification system the sample
\* model has, one it has not, and a pattern.
ValidationLeaves ==
    {PropertyCondition("Pset_WallCommon", "IsExternal", "equals", Bool(TRUE)),
     PropertyCondition("Pset_Missing", "IsExternal", "exists", undefined),
     PropertyCondition("Pset_*", "IsExternal", "exists", undefined),
     ClassificationCondition(Str("Uniclass"), undefined),
     ClassificationCondition(Str("OmniClass"), Str("EF_25"))}

RECURSIVE ValidationTrees(_), ValidationForests(_)
ValidationTrees(n) ==
    (IF n = 1 THEN ValidationLeaves ELSE {})
    \cup {CompositeCondition(type, f) : type \in CompositeTypes, f \in ValidationForests(n - 1)}
ValidationForests(n) ==
    IF n = 0 THEN {<<>>}
    ELSE UNION {{<<tree>> \o f : tree \in ValidationTrees(j), f \in ValidationForests(n - j)} :
                  j \in 1..n}

ValidationRules ==
    {Rule(conditions, undefined) :
        conditions \in UNION {ValidationForests(n) : n \in 0..MaxTreeNodes}}

Validate ==
    /\ index # undefined
    /\ call = undefined
    /\ call' = [name |-> "validate", args |-> <<rule>>]
    /\ outcome' = validateRule(rule, index)
    /\ UNCHANGED <<engineVars, builderVars, hookVars>>

NextValidate == BuildIndex \/ Validate

InitValidate == InitEngine({SampleModel}, OptionSets, ValidationRules)
SpecValidate == InitValidate /\ [][NextValidate]_vars

\* The same machine with, among its rules, one whose conditions field is
\* absent and ones that name a classification system in another letter
\* case and with a one-character wildcard.
RuleWithoutConditions == [id |-> "rule", name |-> "Rule", mode |-> undefined]
SystemSpellingRules ==
    {Rule(<<ClassificationCondition(Str(system), undefined)>>, undefined) :
        system \in {"uniclass", "Uniclas?", "UNICLASS"}}
InitValidateAny ==
    InitEngine({SampleModel}, OptionSets,
               ValidationRules \cup {RuleWithoutConditions} \cup SystemSpellingRules)
SpecValidateAny == InitValidateAny /\ [][NextValidate]_vars

(***************************************************************************)
(* The comparison operators, called on their own.  Numbers are in units of *)
(* 1e-5, so that the tolerance 0.0001 is Tolerance units.                  *)
(***************************************************************************)
NaN == [t |-> "NaN"]
NumericOperators ==
    {"equals", "notEquals", "greaterThan", "lessThan", "greaterOrEqual", "lessOrEqual",
     "between"}
StringOperators ==
    {"equals", "notEquals", "contains", "notContains", "startsWith", "endsWith", "matches"}
ComparisonOperators == NumericOperators \cup StringOperators \cup {"exists", "notExists"}

NumericSubjects == {Num(n) : n \in 0..MaxNumber} \cup {undefined, null, NaN}
StringSubjects == {Str("IfcWall"), Str("ifcwall"), Str(""), undefined, null}
StringArguments == {"IfcWall", "Ifc*", "wall", "[", ""}
\* Subjects and comparison values of the general dispatch.
Subjects ==
    {Bool(TRUE), Bool(FALSE), Num(0), Num(MaxNumber), Str("true"), Str("IfcWall"),
     undefined, null}
CompareValues ==
    {Bool(TRUE), Bool(FALSE), Str("true"), Str("TRUE"), Str("1"), Str(".T."),
     Str("false"), Str("FALSE"), Str("0"), Str(".F."), Str("IfcWall"), Num(0), undefined}

\* parseBooleanValue(value): Bool(..) or null.
parseBooleanValue(value) ==
    IF value.t = "boolean" THEN value
    ELSE IF value \in {Str(".T."), Str("true"), Str("TRUE"), Str("1")} THEN Bool(TRUE)
    ELSE IF value \in {Str(".F."), Str("false"), Str("FALSE"), Str("0")} THEN Bool(FALSE)
    ELSE null

Called(name, args, value) ==
    /\ call = undefined
    /\ call' = [name |-> name, args |-> args]
    /\ outcome' = value
    /\ UNCHANGED <<engineVars, builderVars, hookVars>>

EvaluateNumericOperator ==
    \E value \in NumericSubjects, operator \in NumericOperators,
       compareValue \in 0..MaxNumber, compareTo \in {undefined, Num(MaxNumber)} :
        Called("evaluateNumericOperator", <<value, operator, compareValue, compareTo>>,
               Ret(evaluateNumericOperator(value, operator, compareValue, compareTo)))

EvaluateStringOperator ==
    \E value \in StringSubjects, operator \in StringOperators,
       compareValue \in StringArguments :
        Called("evaluateStringOperator", <<value, operator, compareValue>>,
               evaluateStringOperator(value, operator, Str(compareValue)))

EvaluateOperator ==
    \E value \in Subjects, operator \in ComparisonOperators, compareValue \in CompareValues :
        Called("evaluateOperator", <<value, operator, compareValue>>,
               evaluateOperator(value, operator, compareValue, undefined))

ParseBooleanValue ==
    \E value \in CompareValues :
        Called("parseBooleanValue", <<value>>, Ret(parseBooleanValue(value)))

\* The namespaces of a record, each with its entries, and the namespace
\* strings and entry names looked up.
Namespace(name, entryNames) ==
    [name |-> name,
     props |-> [k \in DOMAIN entryNames |->
                  [name |-> entryNames[k], type |-> "number", value |-> Num(Unit)]]]
NamespaceMaps ==
    {<<>>,
     <<Namespace("Qto_WallBaseQuantities", <<"Width">>)>>,
     <<Namespace("Qto_WallBaseQuantities", <<>>), Namespace("Qto_Other", <<"Width", "Height">>)>>,
     <<Namespace("qto_other", <<"Height">>), Namespace("Qto_Other", <<"Width">>)>>}
NamespaceStrings ==
    {"*", "Qto_WallBaseQuantities", "Qto_Other", "qto_other", "QTO_OTHER", "Qto_Missing",
     "Qto_*", "Qto_Othe?", "*Other", ""}
EntryNames == {"Width", "Height", "Length"}

\* The two lookups of one namespace string and entry name, in a record
\* whose properties and quantities are the same map.
Lookup ==
    \E map \in NamespaceMaps, namespace \in NamespaceStrings, entryName \in EntryNames :
        Called("lookup", <<map, namespace, entryName>>,
               Ret([property |-> findPropertyValue(map, namespace, entryName),
                    quantity |-> qtyValue(map, Str(namespace), entryName)]))

NextOperators ==
    EvaluateNumericOperator \/ EvaluateStringOperator \/ EvaluateOperator
    \/ ParseBooleanValue \/ Lookup

SpecOperators == InitBuilder /\ [][NextOperators]_vars

(***************************************************************************)
(* The condition evaluators of src/unnamed/part_001, called on their own   *)
(* with an element and a condition.  An element carries the fields its     *)
(* evaluator reads.                                                        *)
(***************************************************************************)
\* Property maps: namespaces in iteration order, each with its entries.
PropertyEntry(name, value) == [name |-> name, type |-> "string", value |-> value]
PropertySet(name, props) == [name |-> name, props |-> props]
PropertyMaps ==
    {<<>>,
     <<PropertySet("Pset_WallCommon", <<PropertyEntry("FireRating", Str("EI30"))>>)>>,
     <<PropertySet("Pset_WallCommon", <<PropertyEntry("FireRating", Str("EI30"))>>),
       PropertySet("Pset_Custom", <<PropertyEntry("FireRating", Str("EI60"))>>)>>,
     <<PropertySet("Other_Set", <<PropertyEntry("FireRating", Str("EI90"))>>),
       PropertySet("Pset_WallCommon", <<PropertyEntry("Reference", Str("W1"))>>),
       PropertySet("Pset_Custom", <<PropertyEntry("FireRating", Str("EI60")),
                                    PropertyEntry("Reference", undefined)>>)>>}
PropertyNamespaces == {"*", "Pset_*", "P?et_Custom", "*Common", "Pset_Custom", "Qto_*"}
PropertyNames == {"FireRating", "Reference", "Missing"}
PropertyOperators == {"equals", "notEquals", "contains", "exists", "notExists"}
PropertyValues == {Str("EI30"), Str("EI60")}
PropertyConditions ==
    {PropertyCondition(propertySet, propertyName, operator, value) :
        propertySet \in PropertyNamespaces, propertyName \in PropertyNames,
        operator \in PropertyOperators, value \in PropertyValues}

EvaluatePropertyCondition ==
    \E properties \in PropertyMaps, condition \in PropertyConditions :
        Called("evaluatePropertyCondition", <<[properties |-> properties], condition>>,
               evaluatePropertyCondition([properties |-> properties], condition))

\* Placements: none, a storey with its elevation, an elevation whose storey
\* has no name, and a building with a storey.
SpatialLevels == {"project", "site", "building", "storey", "space"}
Placements ==
    {NoSpatial,
     [NoSpatial EXCEPT !.storey = Str("Level 1"), !.storeyElevation = Num(0)],
     [NoSpatial EXCEPT !.storeyElevation = Integer(3)],
     [NoSpatial EXCEPT !.building = Str("Block A"), !.storey = Str("Level 2"),
                       !.storeyElevation = Integer(3)]}
Elevation(operator, value) == [operator |-> operator, value |-> value, valueTo |-> undefined]
SpatialConditions ==
    {[type |-> "spatial", level |-> level, name |-> name, elevation |-> elevation] :
        level \in SpatialLevels,
        name \in {undefined, Str("Level 1"), Str("Level*"), Str("Block A")},
        elevation \in {undefined, Elevation("greaterOrEqual", 0),
                       Elevation("greaterThan", Unit)}}

EvaluateSpatialCondition ==
    \E spatial \in Placements, condition \in SpatialConditions :
        Called("evaluateSpatialCondition", <<[spatial |-> spatial], condition>>,
               Ret(evaluateSpatialCondition([spatial |-> spatial], condition)))

\* Materials: none, a single material, and layer sets of one and two layers.
Layer(material, thickness) == [material |-> material, thickness |-> Num(thickness)]
Materials ==
    {undefined,
     [name |-> "Oak", type |-> "single", totalThickness |-> undefined, layers |-> undefined],
     [name |-> "Unnamed Layer Set", type |-> "layerSet", totalThickness |-> Num(2),
      layers |-> Array(<<Layer("Concrete", 2)>>)],
     [name |-> "Cavity Wall", type |-> "layerSet", totalThickness |-> Num(3),
      layers |-> Array(<<Layer("Brick", 1), Layer("Concrete", 2)>>)]}
Thicknesses == {undefined, Num(1), Num(2), Num(3), Num(4)}
MaterialConditions ==
    {[type |-> "material", name |-> name, minThickness |-> minThickness,
      maxThickness |-> maxThickness] :
        name \in {undefined, Str("Oak"), Str("concrete"), Str("Con*"), Str("Steel")},
        minThickness \in Thicknesses, maxThickness \in Thicknesses}

EvaluateMaterialCondition ==
    \E material \in Materials, condition \in MaterialConditions :
        Called("evaluateMaterialCondition", <<[material |-> material], condition>>,
               Ret(evaluateMaterialCondition([material |-> material], condition)))

\* Classifications: no entry, one entry, and two entries of two systems.
Classification(system, code, name) ==
    [system |-> system, code |-> code, name |-> name, path |-> <<>>]
ClassificationLists ==
    {<<>>,
     <<Classification("Uniclass", "EF_25", "Walls")>>,
     <<Classification("OmniClass", "21-02", "Shell")>>,
     <<Classification("Uniclass", "EF_25", "Walls"),
       Classification("OmniClass", "21-02", "Shell")>>}
ClassificationConditions ==
    {[type |-> "classification", system |-> system, code |-> code, name |-> name] :
        system \in {undefined, Str("*"), Str("Uniclass"), Str("Omni*")},
        code \in {undefined, Str("EF_25"), Str("21*")},
        name \in {undefined, Str("walls"), Str("Shell")}}

EvaluateClassificationCondition ==
    \E classifications \in ClassificationLists, condition \in ClassificationConditions :
        Called("evaluateClassificationCondition",
               <<[classifications |-> classifications], condition>>,
               Ret(evaluateClassificationCondition([classifications |-> classifications],
                                                   condition)))

\* Attributes: an element with every attribute, and elements that miss some.
AttributeNames == {"name", "description", "tag", "objectType", "predefinedType"}
AttributeElements ==
    {[name |-> name, description |-> description, tag |-> undefined,
      objectType |-> Str("Standard"), predefinedType |-> undefined] :
        name \in {undefined, null, Str(""), Str("Wall-01")},
        description \in {undefined, Str("Outer wall")}}
AttributeConditions ==
    {AttributeCondition(attribute, operator, value) :
        attribute \in AttributeNames,
        operator \in StringOperators \cup {"exists", "notExists"},
        value \in {Str(""), Str("Wall*")}}

EvaluateAttributeCondition ==
    \E element \in AttributeElements, condition \in AttributeConditions :
        Called("evaluateAttributeCondition", <<element, condition>>,
               evaluateAttributeCondition(element, condition))

NextConditions ==
    EvaluatePropertyCondition \/ EvaluateSpatialCondition \/ EvaluateMaterialCondition
    \/ EvaluateClassificationCondition \/ EvaluateAttributeCondition

SpecConditions == InitBuilder /\ [][NextConditions]_vars

(***************************************************************************)
(* src/unnamed/part_001: the methods of a selection result.  They read an  *)
(* element as a JavaScript object: Obj(fields) holds the fields in the     *)
(* order of the literal, each a key and a value.  The paths asked for name *)
(* no member of Object.prototype.                                          *)
(***************************************************************************)
Obj(fields) == [t |-> "object", fields |-> fields]
Field(key, value) == [key |-> key, value |-> value]

\* The element literal and the objects it holds.
propertySetObject(props) ==
    Obj([k \in DOMAIN props |->
            Field(props[k].name,
                  Obj(<<Field("type", Str(props[k].type)), Field("value", props[k].value)>>))])
dictObject(dict) ==
    Obj([k \in DOMAIN dict |-> Field(dict[k].name, propertySetObject(dict[k].props))])
spatialObject(spatial) ==
    Obj(<<Field("storey", spatial.storey),
          Field("storeyElevation", spatial.storeyElevation)>>)
layerObject(layer) ==
    Obj(<<Field("material", Str(layer.material)), Field("thickness", layer.thickness)>>)
materialObject(material) ==
    IF material = undefined THEN undefined
    ELSE Obj(<<Field("name", Str(material.name)), Field("type", Str(material.type)),
               Field("totalThickness", material.totalThickness),
               Field("layers",
                     IF material.layers = undefined THEN undefined
                     ELSE Array([k \in DOMAIN material.layers.v |->
                                    layerObject(material.layers.v[k])]))>>)
classificationObject(c) ==
    Obj(<<Field("system", Str(c.system)), Field("code", Str(c.code)),
          Field("name", Str(c.name)), Field("path", Array(<<>>))>>)
relationshipsObject(relationships) ==
    Obj(<<Field("hasType",
                IF relationships.hasType = undefined THEN undefined
                ELSE Integer(relationships.hasType.v))>>)
elementObject(e) ==
    Obj(<<Field("expressId", Integer(e.expressId)),
          Field("globalId", Str(e.globalId)),
          Field("type", Str(e.type)),
          Field("inheritanceChain",
                Array([k \in DOMAIN e.inheritanceChain |-> Str(e.inheritanceChain[k])])),
          Field("name", e.name),
          Field("description", e.description),
          Field("objectType", e.objectType),
          Field("spatial", spatialObject(e.spatial)),
          Field("properties", dictObject(e.properties)),
          Field("quantities", dictObject(e.quantities)),
          Field("material", materialObject(e.material)),
          Field("classifications",
                Array([k \in DOMAIN e.classifications |->
                          classificationObject(e.classifications[k])])),
          Field("relationships", relationshipsObject(e.relationships))>>)

\* key in object
hasKey(object, key) == \E k \in DOMAIN object.fields : object.fields[k].key = key

\* value?.[part]
getMember(value, part) ==
    CASE value.t = "object" ->
            LET i == FirstIndex([k \in DOMAIN value.fields |-> value.fields[k].key = part])
            IN  IF i = 0 THEN undefined ELSE value.fields[i].value
      [] value.t = "array" ->
            IF part = "length" THEN Integer(Len(value.v))
            ELSE LET i == FirstIndex([k \in DOMAIN value.v |-> NumberString(k - 1) = part])
                 IN  IF i = 0 THEN undefined ELSE value.v[i]
      [] value.t = "string" ->
            IF part = "length" THEN Integer(Len(value.v))
            ELSE LET i == FirstIndex([k \in 1..Len(value.v) |-> NumberString(k - 1) = part])
                 IN  IF i = 0 THEN undefined ELSE Str(CharAt(value.v, i))
      [] OTHER -> undefined

\* The walk of a dotted path from the element down.
RECURSIVE walk(_, _)
walk(current, parts) ==
    IF parts = <<>> THEN current ELSE walk(getMember(current, Head(parts)), Tail(parts))

\* A fallback key that is the empty string.
unresolvedKeyEmpty == Str("")

\* The key of the values that are null or undefined, and of the paths that
\* are no key and have no dot.
unresolvedKey == Str("undefined")

\* a ?? b
Coalesce(a, b) == IF IsNullish(a) THEN b ELSE a

\* The groupKey of an element under a property path.
groupKey(element, property) ==
    LET object == elementObject(element)
    IN  IF hasKey(object, property)
        THEN JsString(Coalesce(getMember(object, property), unresolvedKey))
        ELSE IF includes(property, ".")
        THEN JsString(Coalesce(walk(object, split(property)), unresolvedKey))
        ELSE unresolvedKey.v

\* index.get(expressId)
indexGet(idx, expressId) ==
    LET i == FirstIndex([k \in DOMAIN idx.elements |-> idx.elements[k].expressId = expressId])
    IN  IF i = 0 THEN undefined ELSE idx.elements[i]

\* getElements(): the elements of the ids the index knows, in their order.
RECURSIVE getElements(_, _)
getElements(expressIds, idx) ==
    IF expressIds = <<>> THEN <<>>
    ELSE (IF indexGet(idx, Head(expressIds)) = undefined THEN <<>>
          ELSE <<indexGet(idx, Head(expressIds))>>)
         \o getElements(Tail(expressIds), idx)

\* groupBy(property): the groups Map as the sequence of its entries, a key
\* and its ids, in insertion order.
RECURSIVE groupByLoop(_, _, _, _)
groupByLoop(expressIds, idx, property, groups) ==
    IF expressIds = <<>> THEN groups
    ELSE LET id == Head(expressIds)
             element == indexGet(idx, id)
         IN  IF element = undefined
             THEN groupByLoop(Tail(expressIds), idx, property, groups)
             ELSE LET key == groupKey(element, property)
                      i == FirstIndex([k \in DOMAIN groups |-> groups[k].key = key])
                  IN  groupByLoop(Tail(expressIds), idx, property,
                                  IF i = 0
                                  THEN Append(groups, [key |-> key, ids |-> <<id>>])
                                  ELSE [groups EXCEPT ![i].ids = Append(@, id)])
groupBy(expressIds, idx, property) == groupByLoop(expressIds, idx, property, <<>>)

\* The property paths the callers group by.
GroupPaths ==
    {"type", "name", "material", "spatial", "inheritanceChain", "predefinedType",
     "nosuch", "nosuch.deep", "spatial.storey", "material.name",
     "properties.Pset_WallCommon.IsExternal.value", "classifications.0.system"}

\* result.getElements() and result.groupBy(property) on the result held;
\* the call records the result it is made on.
GetElements ==
    /\ result # undefined
    /\ ~result.threw
    /\ Called("getElements", <<result.value>>,
              Ret(getElements(result.value.expressIds, index)))

GroupBy ==
    /\ result # undefined
    /\ ~result.threw
    /\ \E property \in GroupPaths :
          Called("groupBy", <<result.value, property>>,
                 Ret(groupBy(result.value.expressIds, index, property)))

NextResults == BuildIndex \/ Select \/ QueryArray \/ QuerySingle \/ GetElements \/ GroupBy
\* The results of two rules: one that selects every element, one the walls.
InitResults ==
    InitEngine(ParseResults, OptionSets,
               {Rule(<<>>, undefined), Rule(<<TypeIsWall>>, undefined)})
SpecResults == InitResults /\ [][NextResults]_vars

(***************************************************************************)
(* Vocabulary of the properties.                                           *)
(***************************************************************************)
Elements == Range(index.elements)
Returned == result # undefined /\ ~result.threw
ResultIds == Range(result.value.expressIds)
ResultRule == result.value.rule
IdsWhere(Test(_)) == {e.expressId : e \in {el \in Elements : Test(el)}}
\* The element satisfies the condition: its evaluation returns true.
Satisfies(element, condition) == evaluateCondition(element, condition) = Ret(TRUE)
IsComposite(condition) == condition.type \in CompositeTypes

\* Every condition of a sequence of trees, at any depth.
RECURSIVE SubConditions(_)
SubConditions(conditions) ==
    UNION {{conditions[i]} \cup (IF IsComposite(conditions[i])
                                 THEN SubConditions(conditions[i].conditions)
                                 ELSE {}) : i \in 1..Len(conditions)}

\* C1: a returned selection of a rule with at least one top-level condition
\* holds each element once, and holds exactly the elements that satisfy
\* every condition when the mode is 'all' or omitted, and exactly those that
\* satisfy at least one when it is 'any'.
C1_ModeCorrectness ==
    (Returned /\ Len(ResultRule.conditions) >= 1) =>
        LET conditions == ResultRule.conditions
            n == Len(conditions)
        IN  /\ Cardinality(ResultIds) = Len(result.value.expressIds)
            /\ ResultRule.mode \in {undefined, Str("all")} =>
                  ResultIds = IdsWhere(LAMBDA e : \A i \in 1..n : Satisfies(e, conditions[i]))
            /\ ResultRule.mode = Str("any") =>
                  ResultIds = IdsWhere(LAMBDA e : \E i \in 1..n : Satisfies(e, conditions[i]))

\* C1 witness: a selection under mode 'any' of two conditions, each of which
\* alone selects fewer elements than the two together.
C1_Witness ==
    /\ Returned
    /\ Len(ResultRule.conditions) = 2
    /\ ResultRule.mode = Str("any")
    /\ \A i \in 1..2 :
          IdsWhere(LAMBDA e : Satisfies(e, ResultRule.conditions[i])) \notin {{}, ResultIds}

\* C2: at every depth of the evaluated rule, a 'not' composite matches an
\* element iff none of its children does, an 'and' iff all do, an 'or' iff
\* at least one does.
C2_CompositeSemantics ==
    Returned =>
        \A c \in {sc \in SubConditions(ResultRule.conditions) : IsComposite(sc)} :
            \A e \in Elements :
                LET kids == c.conditions
                IN  Satisfies(e, c) <=>
                        CASE c.type = "not" -> \A i \in 1..Len(kids) : ~Satisfies(e, kids[i])
                          [] c.type = "and" -> \A i \in 1..Len(kids) : Satisfies(e, kids[i])
                          [] c.type = "or" -> \E i \in 1..Len(kids) : Satisfies(e, kids[i])

\* C2 witness: a selection by a 'not' over two children, on an index with an
\* element that one child matches and the other does not, which the 'not'
\* leaves out.
C2_Witness ==
    /\ Returned
    /\ \E i \in 1..Len(ResultRule.conditions) :
          LET c == ResultRule.conditions[i]
          IN  /\ c.type = "not"
              /\ Len(c.conditions) = 2
              /\ \E e \in Elements :
                    /\ Satisfies(e, c.conditions[1])
                    /\ ~Satisfies(e, c.conditions[2])
                    /\ ~Satisfies(e, c)
                    /\ e.expressId \notin ResultIds

\* The ids of the index in iteration order.
AllIds == [i \in 1..Len(index.elements) |-> index.elements[i].expressId]

\* C3: a rule without top-level conditions whose mode is 'all' or omitted
\* selects every element of the index.
C3_EmptyConditions ==
    (result # undefined /\ ResultRule.conditions = <<>>
        /\ ResultRule.mode \in {undefined, Str("all")}) =>
            /\ ~result.threw
            /\ result.value.expressIds = AllIds

\* C3 witness: such a selection on an index of two elements.
C3_Witness ==
    /\ Returned
    /\ ResultRule.conditions = <<>>
    /\ ResultRule.mode = undefined
    /\ Len(index.elements) >= 2
    /\ result.value.count = Len(index.elements)

ConditionTypes ==
    {"entityType", "property", "spatial", "material", "classification", "attribute",
     "quantity", "relationship", "or", "and", "not"}

\* A condition of an unrecognized kind, or a 'matches' condition whose
\* regular expression does not compile.
IsBroken(condition) ==
    \/ condition.type \notin ConditionTypes
    \/ /\ condition.type \in {"attribute", "property"}
       /\ condition.operator = "matches"
       /\ condition.value.t = "string"
       /\ RegExpSyntaxError(condition.value.v)

\* The places of the broken conditions in a sequence of trees: a place is
\* the sequence of child positions leading to it.
RECURSIVE BrokenPaths(_)
BrokenPaths(conditions) ==
    UNION {(IF IsBroken(conditions[i]) THEN {<<i>>} ELSE {})
           \cup (IF IsComposite(conditions[i])
                 THEN {<<i>> \o p : p \in BrokenPaths(conditions[i].conditions)}
                 ELSE {}) : i \in 1..Len(conditions)}

\* The trees without the condition at a place.
RECURSIVE RemoveAt(_, _)
RemoveAt(conditions, path) ==
    LET i == path[1]
    IN  IF Len(path) = 1
        THEN SubSeq(conditions, 1, i - 1) \o SubSeq(conditions, i + 1, Len(conditions))
        ELSE [conditions EXCEPT ![i].conditions = RemoveAt(@, Tail(path))]

\* The kind of the composite that holds a place ("top" for the rule itself)
\* and the number of 'not' composites the place lies beneath.
RECURSIVE ParentType(_, _), NotsAbove(_, _)
ParentType(conditions, path) ==
    IF Len(path) = 1 THEN "top"
    ELSE IF Len(path) = 2 THEN conditions[path[1]].type
    ELSE ParentType(conditions[path[1]].conditions, Tail(path))
NotsAbove(conditions, path) ==
    IF Len(path) = 1 THEN 0
    ELSE (IF conditions[path[1]].type = "not" THEN 1 ELSE 0)
         + NotsAbove(conditions[path[1]].conditions, Tail(path))

\* The selection of the evaluated rule with the condition at a place removed.
SelectWithout(path) ==
    select(index, [ResultRule EXCEPT !.conditions = RemoveAt(@, path)])

\* The evaluated rule selects nothing that it would not select without the
\* broken condition at the place.
OnlyRemoves(path) ==
    /\ ~SelectWithout(path).threw
    /\ ResultIds \subseteq Range(SelectWithout(path).value.expressIds)

\* C4 as claimed: a broken condition anywhere in the tree of the evaluated
\* rule only removes elements from the selection.
C4_FailClosedAnywhere ==
    Returned => \A path \in BrokenPaths(ResultRule.conditions) : OnlyRemoves(path)

\* A place inside an 'and' composite that lies beneath an odd number of
\* 'not' composites.
InNegatedAnd(conditions, path) ==
    /\ ParentType(conditions, path) = "and"
    /\ NotsAbove(conditions, path) % 2 = 1

\* C4 amended: a broken condition only removes elements from the selection
\* wherever it sits, except inside an 'and' composite beneath an odd number
\* of 'not' composites.
C4_FailClosedOutsideNegatedAnd ==
    Returned =>
        \A path \in BrokenPaths(ResultRule.conditions) :
            ~InNegatedAnd(ResultRule.conditions, path) => OnlyRemoves(path)

\* C4 witness: a selection by a rule with a broken condition nested in a
\* composite, outside any negated 'and', that selects fewer elements than
\* the rule without it.
C4_Witness ==
    /\ Returned
    /\ \E path \in BrokenPaths(ResultRule.conditions) :
          /\ Len(path) >= 2
          /\ ~InNegatedAnd(ResultRule.conditions, path)
          /\ OnlyRemoves(path)
          /\ ResultIds # Range(SelectWithout(path).value.expressIds)

\* The relationship slot a relationship condition reads.
relationshipSlot(element, relation) ==
    CASE relation = "containedIn" -> element.relationships.containedIn
      [] relation = "aggregatedBy" -> element.relationships.aggregatedBy
      [] relation = "connectedTo" -> element.relationships.connectedTo
      [] relation = "hasType" -> element.relationships.hasType
      [] OTHER -> undefined

\* A soft failure on an element: a broken condition, or a relationship
\* condition on an element without data for that relationship.
IsSoftFailure(element, condition) ==
    \/ IsBroken(condition)
    \/ /\ condition.type = "relationship"
       /\ relationshipSlot(element, condition.relation) = undefined

\* C5: every select or query returns a result, and in the evaluated rule
\* every soft failure evaluates to false, without raising, on every element.
C5_EvaluationTotal ==
    result # undefined =>
        /\ ~result.threw
        /\ \A c \in SubConditions(ResultRule.conditions) :
              \A e \in Elements :
                  IsSoftFailure(e, c) => evaluateCondition(e, c) = Ret(FALSE)

\* C5 witness: a returned selection, under mode 'any', of a rule holding an
\* unknown kind, a regular expression that does not compile and a
\* relationship condition, on an index with elements.
C5_Witness ==
    /\ Returned
    /\ ResultRule.mode = Str("any")
    /\ SoftFailures \subseteq Range(ResultRule.conditions)
    /\ Elements # {}
    /\ ResultIds = {}

\* The evaluated rule is one entity-type condition without a predefined
\* type filter.
IsTypeRule ==
    /\ Returned
    /\ Len(ResultRule.conditions) = 1
    /\ ResultRule.conditions[1].type = "entityType"
    /\ ResultRule.conditions[1].predefinedType = undefined

\* The type names an entity-type condition lists.
TypeNames(condition) ==
    IF condition.entityType.t = "array" THEN Range(condition.entityType.v)
    ELSE {condition.entityType.v}

\* Two names that differ at most in letter case.
SameIgnoringCase(a, b) == toLowerCase(a) = toLowerCase(b)

\* C6 as claimed: an entity-type condition selects every element whose type
\* name equals one of its names up to letter case, whatever includeSubtypes
\* is.
C6_TypeCaseInsensitive ==
    IsTypeRule =>
        \A e \in Elements :
            (\E name \in TypeNames(ResultRule.conditions[1]) :
                SameIgnoringCase(e.type, name))
                => e.expressId \in ResultIds

\* C7 as claimed: every element of a built index has IfcProduct or
\* IfcSpatialStructureElement in the ancestry of its type.
C7_OnlyProductsIndexed ==
    index # undefined =>
        \A e \in Elements : isProduct(getInheritanceChain(e.type))

\* The last two calls both returned, for the same rule.
SameRuleTwice ==
    /\ Returned
    /\ previous # undefined
    /\ ~previous.threw
    /\ previous.value.rule = ResultRule

C10_SubtypeInclusion ==
    IsTypeRule =>
        LET condition == ResultRule.conditions[1]
        IN  ResultIds =
                IF condition.includeSubtypes = Bool(FALSE)
                THEN IdsWhere(LAMBDA e : \E name \in TypeNames(condition) :
                                            SameIgnoringCase(e.type, name))
                ELSE IdsWhere(LAMBDA e : \E name \in TypeNames(condition) :
                                            name \in Range(getInheritanceChain(e.type)))

\* C10 witness: 'IfcWall' with subtypes selects an IfcWallStandardCase
\* element next to an IfcWall one.
C10_Witness ==
    /\ IsTypeRule
    /\ ResultRule.conditions[1].entityType = Str("IfcWall")
    /\ ResultRule.conditions[1].includeSubtypes # Bool(FALSE)
    /\ \E e \in Elements : e.type = "IfcWallStandardCase" /\ e.expressId \in ResultIds
    /\ \E e \in Elements : e.type = "IfcWall" /\ e.expressId \in ResultIds

\* C9 as claimed: every rule build() returned still has the conditions and
\* the mode it had when it was returned, whatever was called on the builder
\* since.
C9_BuiltRuleImmutable ==
    \A i \in 1..Len(returned) : ruleValue(returned[i].rule) = returned[i].asReturned

\* The last call was of the named operator.
CalledOperator(name) == call # undefined /\ call.name = name

\* C11 as claimed: on a numeric subject, 'equals' holds iff the difference
\* is at most 1e-4, a difference of exactly 1e-4 included, and 'notEquals'
\* holds iff 'equals' does not.
C11_ToleranceInclusive ==
    (CalledOperator("evaluateNumericOperator") /\ call.args[1].t = "number") =>
        LET difference == Abs(call.args[1].v - call.args[3])
        IN  /\ call.args[2] = "equals" => (outcome.value <=> difference <= Tolerance)
            /\ call.args[2] = "notEquals" => (outcome.value <=> difference > Tolerance)

\* A missing subject: null or undefined, or NaN for the numeric operators.
MissingSubject ==
    \/ IsNullish(call.args[1])
    \/ CalledOperator("evaluateNumericOperator") /\ IsNaN(call.args[1])

\* C12: on a missing subject the string and the numeric operators return
\* true for 'notEquals' only, and the general dispatch for 'notEquals' and
\* 'notExists' only; none raises.
C12_MissingSubject ==
    (/\ call # undefined
     /\ call.name \in {"evaluateNumericOperator", "evaluateStringOperator",
                       "evaluateOperator"}
     /\ MissingSubject) =>
        /\ ~outcome.threw
        /\ outcome.value <=>
              \/ call.args[2] = "notEquals"
              \/ call.name = "evaluateOperator" /\ call.args[2] = "notExists"

\* C12 witness: 'between' on a NaN subject returned false.
C12_Witness ==
    /\ CalledOperator("evaluateNumericOperator")
    /\ IsNaN(call.args[1])
    /\ call.args[2] = "between"
    /\ call.args[4] # undefined
    /\ outcome = Ret(FALSE)

\* C19 as claimed: on a boolean subject, against a comparison value that
\* parseBooleanValue recognizes in its native or its "true"/"TRUE"/"1",
\* "false"/"FALSE"/"0" forms, 'equals' holds iff the subject is the boolean
\* the value denotes, 'notEquals' iff it is not, and every other operator
\* returns false.
C19_BooleanEquality ==
    (/\ CalledOperator("evaluateOperator")
     /\ call.args[1].t = "boolean"
     /\ call.args[2] \notin {"exists", "notExists"}
     /\ call.args[3] \in {Bool(TRUE), Bool(FALSE), Str("true"), Str("TRUE"), Str("1"),
                          Str("false"), Str("FALSE"), Str("0")}) =>
        LET denoted == parseBooleanValue(call.args[3])
        IN  outcome = Ret(CASE call.args[2] = "equals" -> call.args[1] = denoted
                            [] call.args[2] = "notEquals" -> call.args[1] # denoted
                            [] OTHER -> FALSE)

\* The places, as sequences of child positions, of the conditions that name
\* a property set or a classification system the index has not observed.
RECURSIVE UnobservedPaths(_)
UnobservedPaths(conditions) ==
    UNION {LET c == conditions[i]
           IN  (IF \/ /\ c.type = "property"
                      /\ ~HasWildcard(c.propertySet)
                      /\ c.propertySet \notin index.propertySets
                   \/ /\ c.type = "classification"
                      /\ c.system # undefined
                      /\ ~HasWildcard(c.system.v)
                      /\ c.system.v \notin index.classificationSystems
                THEN {<<i>>} ELSE {})
               \cup (IF IsComposite(c)
                     THEN {<<i>> \o p : p \in UnobservedPaths(c.conditions)}
                     ELSE {}) : i \in 1..Len(conditions)}

\* The path validate reports for a place: conditions[i].conditions[j]...
RECURSIVE PlaceString(_)
PlaceString(path) ==
    IF path = <<>> THEN ""
    ELSE (IF Len(path) = 1 THEN "" ELSE PlaceString(SubSeq(path, 1, Len(path) - 1)) \o ".")
         \o "conditions[" \o NumberString(path[Len(path)] - 1) \o "]"

\* The condition at a place.
RECURSIVE ConditionAt(_, _)
ConditionAt(conditions, path) ==
    IF Len(path) = 1 THEN conditions[path[1]]
    ELSE ConditionAt(conditions[path[1]].conditions, Tail(path))

\* C13: validate returns; the result is invalid, with an error, exactly
\* when the rule has no conditions; and every condition, at any depth, that
\* names an unobserved property set or classification system has a warning
\* at its path, and no error.
C13_ValidationAdvisory ==
    CalledOperator("validate") =>
        /\ ~outcome.threw
        /\ outcome.value.valid <=> Len(rule.conditions) > 0
        /\ outcome.value.valid <=> outcome.value.errors = <<>>
        /\ \A p \in UnobservedPaths(rule.conditions) :
              LET field == IF ConditionAt(rule.conditions, p).type = "property"
                           THEN ".propertySet" ELSE ".system"
              IN  /\ \E i \in 1..Len(outcome.value.warnings) :
                        outcome.value.warnings[i].path = PlaceString(p) \o field
                  /\ \A i \in 1..Len(outcome.value.errors) :
                        outcome.value.errors[i].path # PlaceString(p) \o field

\* C13 witness: a valid result with a warning for an unobserved name two
\* composites deep, one of them a 'not'.
C13_Witness ==
    /\ CalledOperator("validate")
    /\ outcome.value.valid
    /\ \E p \in UnobservedPaths(rule.conditions) :
          /\ Len(p) = 3
          /\ \E k \in 1..2 : ConditionAt(rule.conditions, SubSeq(p, 1, k)).type = "not"
    /\ outcome.value.warnings # <<>>

\* The type names the builder in use was seeded with: none when it was made
\* without names.
SeedNames ==
    LET entityTypes == call.args[1]
    IN  IF entityTypes = undefined \/ entityTypes = Str("") THEN <<>>
        ELSE IF entityTypes.t = "array" THEN entityTypes.v
        ELSE <<entityTypes.v>>

\* The conditions of the builder in use, which build() hands out.
BuilderConditions == arrays[builder.conditions]

\* The first condition is the entity-type condition over the seed names,
\* subtypes included.
SeedInstalled ==
    /\ Len(BuilderConditions) >= 1
    /\ BuilderConditions[1].type = "entityType"
    /\ BuilderConditions[1].entityType = StrArray(SeedNames)
    /\ BuilderConditions[1].includeSubtypes = Bool(TRUE)

\* No entity-type condition restricts the rule.
NoTypeCondition ==
    \A k \in 1..Len(BuilderConditions) : BuilderConditions[k].type # "entityType"

\* C14 as claimed: a builder seeded with type names has the entity-type
\* condition over them first, unless "*" is among the names, alone or as a
\* member of the list, and then it has no type condition.
C14_SeedingAnyWildcard ==
    (builder # undefined /\ SeedNames # <<>>) =>
        IF "*" \in Range(SeedNames) THEN NoTypeCondition ELSE SeedInstalled

\* One step of the builder keeps the conditions it has, in place, up to the
\* predefined type of a type condition, and adds at most one after them.
InCallOrder ==
    builder' = builder =>
        LET old == BuilderConditions
            new == BuilderConditions'
        IN  /\ Len(new) \in {Len(old), Len(old) + 1}
            /\ \A k \in 1..Len(old) :
                  \/ new[k] = old[k]
                  \/ /\ old[k].type = "entityType"
                     /\ new[k] = [old[k] EXCEPT !.predefinedType = new[k].predefinedType]

\* The builder is seeded as the amended claim says.
SeededByFirstName ==
    SeedNames # <<>> =>
        IF SeedNames[1] = "*" THEN NoTypeCondition ELSE SeedInstalled

\* C14 amended: after every step, a builder seeded with type names has the
\* entity-type condition over exactly those names first, with
\* includeSubtypes true, unless "*" is the only or the first name, and then
\* it has no type condition; and the step added its condition after the
\* ones already there.
C14_SeedingFirstWildcard ==
    [][builder' # undefined => (SeededByFirstName' /\ (builder # undefined => InCallOrder))]_vars

\* C14 witness: a builder seeded with two names holds the type condition
\* over them and two later conditions after it.
C14_Witness ==
    /\ builder # undefined
    /\ Len(SeedNames) = 2
    /\ SeedNames[1] # "*"
    /\ SeedInstalled
    /\ Len(BuilderConditions) = 3
    /\ BuilderConditions[2].type # BuilderConditions[3].type

\* The index built from the inputs with one optional input omitted.
BuiltWithout(name) ==
    buildElementIndex(parseResult, [options EXCEPT ![name] = undefined])

\* An element as it is when the named optional input is omitted: the
\* record fields that input feeds are empty.
ElementWithout(name, e) ==
    CASE name = "propertySets" -> [e EXCEPT !.properties = <<>>]
      [] name = "materials" -> [e EXCEPT !.material = undefined]
      [] name = "classifications" -> [e EXCEPT !.classifications = <<>>]
      [] name = "spatialHierarchy" -> [e EXCEPT !.spatial = NoSpatial]
      [] name = "relationships" ->
            [e EXCEPT !.properties = <<>>, !.relationships.hasType = undefined]

\* The entity collection is present.
HasEntities == "entities" \in DOMAIN parseResult

\* C15: with an entity collection the build does not fail; with no optional
\* input every element has empty properties and quantities, no material,
\* classifications or placement, and the secondary indexes and name sets
\* are empty; and omitting one optional input gives, without an error, the
\* same elements with only the fields that input feeds emptied.
C15_GracefulDegradation ==
    HasEntities =>
        /\ ~buildFailed
        /\ (index # undefined /\ options = NoOptions) =>
              /\ \A e \in Elements :
                    /\ e.properties = <<>>
                    /\ e.quantities = <<>>
                    /\ e.material = undefined
                    /\ e.classifications = <<>>
                    /\ e.spatial = NoSpatial
              /\ DOMAIN index.byStorey = {}
              /\ DOMAIN index.byMaterial = {}
              /\ DOMAIN index.byClassification = {}
              /\ index.propertySets = {}
              /\ index.classificationSystems = {}
        /\ index # undefined =>
              \A name \in OptionNames :
                  /\ ~BuiltWithout(name).threw
                  /\ BuiltWithout(name).value.elements =
                        [i \in 1..Len(index.elements) |->
                            ElementWithout(name, index.elements[i])]

\* C15 witness: an index built with every optional input, whose wall has
\* properties, a material, a classification and a storey, all of which the
\* omission of their input empties.
C15_Witness ==
    /\ index # undefined
    /\ options = FullOptions
    /\ \E e \in Elements :
          /\ e.properties # <<>>
          /\ e.material # undefined
          /\ e.classifications # <<>>
          /\ e.spatial # NoSpatial
          /\ \A name \in OptionNames : ElementWithout(name, e) # e

\* C16: without an entity collection the build is rejected and no index is
\* ever held; a rejected build leaves no index.
C16_ConstructionError ==
    /\ ~HasEntities =>
          /\ buildElementIndex(parseResult, options).threw
          /\ index = undefined
          /\ result = undefined
    /\ buildFailed => (~HasEntities /\ index = undefined)

\* C16 witness: a rejected build of a parse result without entities, with
\* the optional inputs given.
C16_Witness ==
    /\ parseResult = NoEntities
    /\ options = FullOptions
    /\ buildFailed
    /\ index = undefined

\* C17: every element of a built index has a non-empty inheritanceChain
\* that ends with its own type, and the chain of a type outside the table
\* is that type alone.
C17_AncestryInvariant ==
    index # undefined =>
        \A e \in Elements :
            /\ Len(e.inheritanceChain) >= 1
            /\ e.inheritanceChain[Len(e.inheritanceChain)] = e.type
            /\ e.type \notin DOMAIN IFC_INHERITANCE => e.inheritanceChain = <<e.type>>

\* C17 witness: an index with an element of a type outside the table next
\* to one of a type with a chain of several names.
C17_Witness ==
    /\ index # undefined
    /\ \E e \in Elements : e.type \notin DOMAIN IFC_INHERITANCE
    /\ \E e \in Elements : Len(e.inheritanceChain) > 1

\* The positions of an id in a sequence of ids.
PositionsOf(id, ids) == {i \in DOMAIN ids : ids[i] = id}

\* The ids of one bucket keep the relative order they have in the result.
InResultOrder(bucket, ids) ==
    \A i, j \in DOMAIN bucket :
        i < j => \A pi \in PositionsOf(bucket[i], ids), pj \in PositionsOf(bucket[j], ids) :
                    pi < pj

\* The path, taken part by part from the element, ends in no value.
Unresolved(element, path) == IsNullish(walk(elementObject(element), split(path)))

\* C18: the count of a selection result is the length of its expressIds;
\* getElements returns the records of the matched ids, one each, in their
\* order; groupBy returns without an error, with every matched id in
\* exactly one bucket, the buckets in the order of the result, and every id
\* whose path ends in no value in the bucket keyed "undefined".
C18_ResultPartitioning ==
    /\ Returned => result.value.count = Len(result.value.expressIds)
    /\ CalledOperator("getElements") =>
          LET ids == call.args[1].expressIds
          IN  /\ ~outcome.threw
              /\ Len(outcome.value) = Len(ids)
              /\ \A i \in DOMAIN ids :
                    /\ outcome.value[i].expressId = ids[i]
                    /\ outcome.value[i] \in Elements
    /\ CalledOperator("groupBy") =>
          LET ids == call.args[1].expressIds
              groups == outcome.value
          IN  /\ ~outcome.threw
              /\ \A i \in DOMAIN ids :
                    Cardinality({k \in DOMAIN groups :
                                    PositionsOf(ids[i], groups[k].ids) # {}}) = 1
              /\ \A k \in DOMAIN groups :
                    /\ Range(groups[k].ids) \subseteq Range(ids)
                    /\ \A id \in Range(groups[k].ids) :
                          Cardinality(PositionsOf(id, groups[k].ids)) = 1
                    /\ InResultOrder(groups[k].ids, ids)
                    /\ \A j \in DOMAIN groups : groups[j].key = groups[k].key => j = k
              /\ \A e \in Elements :
                    (e.expressId \in Range(ids) /\ Unresolved(e, call.args[2])) =>
                        \E k \in DOMAIN groups :
                            /\ groups[k].key = "undefined"
                            /\ e.expressId \in Range(groups[k].ids)

\* C18 witness: a grouping of two matched elements by a dotted path, one
\* with a value there and one without, into two buckets.
C18_Witness ==
    /\ CalledOperator("groupBy")
    /\ includes(call.args[2], ".")
    /\ Len(call.args[1].expressIds) = 2
    /\ Len(outcome.value) = 2
    /\ \E k \in DOMAIN outcome.value : outcome.value[k].key = "undefined"
    /\ \E e \in Elements :
          e.expressId \in Range(call.args[1].expressIds) /\ Unresolved(e, call.args[2])

\* C20 as claimed: in a record whose property map and quantity map are
\* alike, the quantity lookup under a namespace string finds an entry iff
\* the property lookup under that string finds one.
C20_SameNamespaceLookup ==
    CalledOperator("lookup") =>
        (outcome.value.quantity # undefined <=> outcome.value.property # undefined)

\* The last call was of the named evaluator, on this element and condition.
CalledElement == call.args[1]
CalledCondition == call.args[2]

\* The namespaces, by position, that the condition's pattern matches and
\* that define the condition's property name.
MatchingNamespaces(properties, condition) ==
    {k \in DOMAIN properties :
        /\ \/ condition.propertySet = "*"
           \/ matchesPattern(Str(properties[k].name), condition.propertySet)
        /\ \E j \in DOMAIN properties[k].props :
              properties[k].props[j].name = condition.propertyName}

\* The value the namespace at position k gives the property name.
ValueIn(properties, k, propertyName) ==
    LET props == properties[k].props
    IN  props[CHOOSE j \in DOMAIN props : props[j].name = propertyName].value

\* C21: under the namespace "*" or a wildcard pattern, a property condition
\* has the outcome of its operator on the value of the first namespace, in
\* the record's order, that matches and defines the property name, and the
\* outcome of a missing value when there is no such namespace.
C21_WildcardNamespace ==
    (CalledOperator("evaluatePropertyCondition") /\ HasWildcard(CalledCondition.propertySet)) =>
        LET properties == CalledElement.properties
            condition == CalledCondition
            hits == MatchingNamespaces(properties, condition)
            first == CHOOSE k \in hits : \A j \in hits : k <= j
        IN  IF hits = {}
            THEN outcome = Ret(condition.operator \in {"notEquals", "notExists"})
            ELSE CASE condition.operator = "exists" -> outcome = Ret(TRUE)
                   [] condition.operator = "notExists" -> outcome = Ret(FALSE)
                   [] OTHER ->
                        outcome = evaluateOperator(
                                     ValueIn(properties, first, condition.propertyName),
                                     condition.operator, condition.value, condition.valueTo)

\* C21 witness: two namespaces match the pattern and define the name with
\* different values, and the condition asks for the second one's value: it
\* does not hold.
C21_Witness ==
    /\ CalledOperator("evaluatePropertyCondition")
    /\ HasWildcard(CalledCondition.propertySet)
    /\ CalledCondition.propertySet # "*"
    /\ CalledCondition.operator = "equals"
    /\ LET hits == MatchingNamespaces(CalledElement.properties, CalledCondition)
       IN  /\ Cardinality(hits) = 2
           /\ \E k \in hits :
                 /\ \E j \in hits : j < k
                 /\ ValueIn(CalledElement.properties, k, CalledCondition.propertyName)
                       = CalledCondition.value
    /\ outcome = Ret(FALSE)

\* The element has a placement value at the level.
PlacedAt(element, level) == element.spatial[level] # undefined

\* C22 as claimed: a spatial condition never matches an element without a
\* placement value at the condition's level, whatever name and elevation
\* sub-conditions it carries, and with neither it matches exactly the
\* elements that have one.
C22_PlacementRequired ==
    CalledOperator("evaluateSpatialCondition") =>
        /\ ~PlacedAt(CalledElement, CalledCondition.level) => outcome = Ret(FALSE)
        /\ (CalledCondition.name = undefined /\ CalledCondition.elevation = undefined) =>
              outcome = Ret(PlacedAt(CalledElement, CalledCondition.level))

\* C23 as claimed: an attribute condition with operator 'notExists' holds
\* for exactly the elements whose named attribute is missing.
C23_NotExistsSelectsMissing ==
    (CalledOperator("evaluateAttributeCondition") /\ CalledCondition.operator = "notExists") =>
        outcome = Ret(IsNullish(CalledElement[CalledCondition.attribute]))

\* The sub-check of a classification condition on one field of an entry:
\* an omitted pattern passes.
SubCheck(pattern, text) == pattern = undefined \/ matchesPattern(Str(text), pattern.v)

\* One classification entry satisfies the condition's sub-checks together.
EntrySatisfies(entry, condition) ==
    /\ condition.system = Str("*") \/ SubCheck(condition.system, entry.system)
    /\ SubCheck(condition.code, entry.code)
    /\ SubCheck(condition.name, entry.name)

\* Each sub-check is satisfied by some entry, not needing the same one.
SatisfiedAcross(entries, condition) ==
    /\ \E e \in entries : condition.system = Str("*") \/ SubCheck(condition.system, e.system)
    /\ \E e \in entries : SubCheck(condition.code, e.code)
    /\ \E e \in entries : SubCheck(condition.name, e.name)

\* C24: a classification condition matches an element iff one of its
\* classification entries satisfies the system, code and name sub-checks
\* together; an element without entries never matches.
C24_ClassificationPerEntry ==
    CalledOperator("evaluateClassificationCondition") =>
        /\ outcome = Ret(\E e \in Range(CalledElement.classifications) :
                            EntrySatisfies(e, CalledCondition))
        /\ CalledElement.classifications = <<>> => outcome = Ret(FALSE)

\* C24 witness: every sub-check is satisfied by some entry of the element,
\* no entry satisfies them together, and the condition does not match.
C24_Witness ==
    /\ CalledOperator("evaluateClassificationCondition")
    /\ Len(CalledElement.classifications) = 2
    /\ CalledCondition.system \notin {undefined, Str("*")}
    /\ CalledCondition.code # undefined
    /\ SatisfiedAcross(Range(CalledElement.classifications), CalledCondition)
    /\ \A e \in Range(CalledElement.classifications) : ~EntrySatisfies(e, CalledCondition)
    /\ outcome = Ret(FALSE)

\* The pattern matches the material's name or the material name of one of
\* its layers.
MaterialNamed(material, pattern) ==
    \/ matchesPattern(Str(material.name), pattern)
    \/ /\ material.layers # undefined
       /\ \E layer \in Range(material.layers.v) : matchesPattern(Str(layer.material), pattern)

\* The condition bounds the aggregate thickness.
BoundsThickness(condition) ==
    condition.minThickness # undefined \/ condition.maxThickness # undefined

\* C25: a material condition matches an element iff the element has a
\* material, a given name matches the material's name or one of its layers'
\* material names, and, when a thickness bound is given, the material has an
\* aggregate thickness within the bounds, the bounds included.
C25_MaterialMatching ==
    CalledOperator("evaluateMaterialCondition") =>
        LET material == CalledElement.material
            condition == CalledCondition
        IN  outcome = Ret(
               /\ material # undefined
               /\ condition.name # undefined => MaterialNamed(material, condition.name.v)
               /\ BoundsThickness(condition) =>
                     /\ material.totalThickness # undefined
                     /\ condition.minThickness # undefined =>
                           condition.minThickness.v <= material.totalThickness.v
                     /\ condition.maxThickness # undefined =>
                           material.totalThickness.v <= condition.maxThickness.v)

\* C25 witness: a layered material matched through a layer only, with its
\* aggregate thickness on both bounds.
C25_Witness ==
    /\ CalledOperator("evaluateMaterialCondition")
    /\ CalledElement.material # undefined
    /\ CalledCondition.name # undefined
    /\ ~matchesPattern(Str(CalledElement.material.name), CalledCondition.name.v)
    /\ CalledCondition.minThickness = CalledElement.material.totalThickness
    /\ CalledCondition.maxThickness = CalledElement.material.totalThickness
    /\ outcome = Ret(TRUE)

\* The classification keys, property namespace names and classification
\* systems an element carries.
SystemCodes(e) ==
    {e.classifications[i].system \o ":" \o e.classifications[i].code :
        i \in 1..Len(e.classifications)}
NamespaceNames(e) == {e.properties[i].name : i \in 1..Len(e.properties)}
Systems(e) == {e.classifications[i].system : i \in 1..Len(e.classifications)}

\* C26: in a built index, byType and byStorey map each type and storey
\* name to exactly the ids of the elements of that type and on that storey
\* (no key without an id, every element under its type and storey),
\* byMaterial and byClassification hold only ids of elements that carry the
\* keyed material and classification, propertySets is the union of the
\* elements' property namespace names and classificationSystems the set of
\* the systems of the elements' classifications.
C26_SecondaryIndexes ==
    index # undefined =>
        /\ \A t \in DOMAIN index.byType :
              index.byType[t] = {e.expressId : e \in {el \in Elements : el.type = t}}
        /\ \A e \in Elements : e.type \in DOMAIN index.byType
        /\ \A t, u \in DOMAIN index.byType :
              t # u => index.byType[t] \cap index.byType[u] = {}
        /\ \A s \in DOMAIN index.byStorey :
              index.byStorey[s] =
                 {e.expressId : e \in {el \in Elements : el.spatial.storey = Str(s)}}
        /\ \A e \in Elements :
              e.spatial.storey # undefined => e.spatial.storey.v \in DOMAIN index.byStorey
        /\ \A k \in DOMAIN index.byMaterial :
              \A id \in index.byMaterial[k] :
                 \E e \in Elements :
                    /\ e.expressId = id
                    /\ e.material # undefined
                    /\ toLowerCase(e.material.name) = k
        /\ \A k \in DOMAIN index.byClassification :
              \A id \in index.byClassification[k] :
                 \E e \in Elements : e.expressId = id /\ k \in SystemCodes(e)
        /\ index.propertySets = UNION {NamespaceNames(e) : e \in Elements}
        /\ index.classificationSystems = UNION {Systems(e) : e \in Elements}

\* C26 witness: an index with two elements under one type and under one
\* storey, with a material, a classification and a property namespace.
C26_Witness ==
    /\ index # undefined
    /\ \E t \in DOMAIN index.byType : Cardinality(index.byType[t]) = 2
    /\ \E s \in DOMAIN index.byStorey : Cardinality(index.byStorey[s]) = 2
    /\ DOMAIN index.byMaterial # {}
    /\ DOMAIN index.byClassification # {}
    /\ index.propertySets # {}
    /\ index.classificationSystems # {}

\* C27 as claimed: validate returns a result for every rule, and for a rule
\* whose conditions field is absent the result is invalid and carries the
\* error 'Rule must have at least one condition'.
C27_ValidateNeverThrows ==
    CalledOperator("validate") =>
        /\ ~outcome.threw
        /\ "conditions" \notin DOMAIN call.args[1] =>
              /\ ~outcome.value.valid
              /\ \E i \in 1..Len(outcome.value.errors) :
                    outcome.value.errors[i].message = "Rule must have at least one condition"

\* The places of the classification conditions, at any depth.
RECURSIVE ClassificationPaths(_)
ClassificationPaths(conditions) ==
    UNION {(IF conditions[i].type = "classification" THEN {<<i>>} ELSE {})
           \cup (IF IsComposite(conditions[i])
                 THEN {<<i>> \o p : p \in ClassificationPaths(conditions[i].conditions)}
                 ELSE {}) : i \in 1..Len(conditions)}

\* validate warned that the system of the condition at the place was not
\* found in the model.
WarnedSystem(path) ==
    \E i \in 1..Len(outcome.value.warnings) :
        outcome.value.warnings[i].path = PlaceString(path) \o ".system"

\* C28 as claimed: a classification condition whose system validate warns
\* was not found in the model matches no element of the index.
C28_WarningsSound ==
    (CalledOperator("validate") /\ ~outcome.threw) =>
        \A p \in ClassificationPaths(rule.conditions) :
            WarnedSystem(p) =>
                \A e \in Elements : ~Satisfies(e, ConditionAt(rule.conditions, p))

\* C29: every element of a built index has no quantities, predefinedType or
\* tag, no placement but a storey name and elevation and no relationship but
\* hasType; and a rule whose condition is a quantity condition, a type
\* condition with a predefinedType filter, a named spatial condition on
\* another level than the storey, or a containedIn, aggregatedBy or
\* connectedTo relationship condition selects no element.
C29_ReachOfBuiltIndex ==
    /\ index # undefined =>
          \A e \in Elements :
              /\ e.quantities = <<>>
              /\ e.predefinedType = undefined
              /\ e.tag = undefined
              /\ \A level \in {"project", "site", "building", "space"} :
                    e.spatial[level] = undefined
              /\ \A relation \in {"containedIn", "aggregatedBy", "connectedTo"} :
                    e.relationships[relation] = undefined
    /\ (result # undefined /\ rule.conditions[1] \in UnfilledConditions) =>
          /\ Returned
          /\ ResultIds = {}

\* C29 witness: on an index of two elements built with every optional
\* input, a rule on what the builder leaves empty has returned.
C29_Witness ==
    /\ index # undefined
    /\ options = FullOptions
    /\ Len(index.elements) >= 2
    /\ \E e \in Elements : e.spatial.storey # undefined
    /\ \E e \in Elements : e.relationships.hasType # undefined
    /\ Returned
    /\ rule.conditions[1] \in UnfilledConditions
    /\ rule.conditions[1].type = "relationship"

\* C30 as claimed: whenever isEvaluating is true, it is false again later.
C30_AlwaysSettles == isEvaluating ~> ~isEvaluating
====
